---------------------------- MODULE Spec2Model ----------------------------
(***************************************************************************)
(* A model of the Nexus3D engine core (cwahlfeldt/nexus3d): the frame      *)
(* driver (src/core/engine.c), the system registration and the built-in    *)
(* systems (src/ecs/systems.c), the component observers                    *)
(* (src/ecs/components.c), the fixed-timestep physics loop                 *)
(* (nexus_physics_update), the motion of one rigid body through the        *)
(* systems of a step, the matrix, ray and collision helpers, the           *)
(* renderer's frame, statistics and camera, the input state, and the       *)
(* creation and destruction of the engine instance with its subsystems.    *)
(*                                                                         *)
(* The engine is written against the flecs ECS library.  Calls into flecs  *)
(* are modelled by the library's documented contract, at the place where   *)
(* the engine makes the call:                                              *)
(*   - ecs_progress(world, dt) runs every system matched by the world's    *)
(*     pipeline query once, in the order of that query; with dt = 0 the    *)
(*     library measures the frame time itself (pacing the frame with the   *)
(*     target FPS when one is set) and hands the measured time to the      *)
(*     callbacks as it->delta_time;                                        *)
(*   - a pipeline query that names no order sorts the matched systems by   *)
(*     entity id, that is by creation order;                               *)
(*   - operations issued through it->world while a system or an observer   *)
(*     runs are queued and applied when the outermost operation ends.      *)
(*                                                                         *)
(* Time is counted in integer ticks: TimeResolution ticks make 1/60 s.     *)
(***************************************************************************)
EXTENDS Integers, Sequences, FiniteSets, TLC

(***************************************************************************)
(* Bounds of the model.                                                    *)
(***************************************************************************)
TimeResolution == 2
MaxTimestep == 3
MaxDt == 3
MaxJitter == 1
MaxCalls == 2

VARIABLES
    physics,   \* the NexusPhysics structure
    ppc,       \* position inside nexus_physics_update
    obs,       \* what the ECS world was asked and what its callbacks saw
    hist,      \* history of the calls of nexus_physics_update
    runA,      \* a run of the physics loop with one simulated body
    runB,      \* an independent second run, fed the same frame times
    engine,    \* the NexusEngine structure
    epc,       \* position inside nexus_engine_update
    sysIdx,    \* position of the running ecs_progress in the pipeline
    tick,      \* what the current frame tick has executed so far
    renderer,  \* the NexusRenderer structure
    cameras,   \* the NexusCamera objects: who created each, how often it was destroyed
    scene,     \* the entities of a scene: parents, storage order, positions, scales
    transforms,\* the NexusTransformComponent of each entity
    xpc,       \* position of a frame inside the transform and hierarchy systems
    xlog,      \* what the hierarchy system has read and done in the current frame
    world,     \* the ECS world: tables of entities, camera flags, command queue
    wpc,       \* what the world is doing, and the observer events still to deliver
    iter,      \* the iteration in progress: the batch a callback is going through
    config,    \* physics->config: the configured gravity
    rbody,     \* the components of one rigid body of the world
    bpc,       \* position of an ecs_progress over the body's world
    bsnap,     \* the body before the running step, and what changed since
    registry, \* the systems and phases registered with the world, and the last registration
    input, \* the NexusInput structure, and what a frame polled and showed to the systems
    life, \* the engine instance, the subsystems alive, and what the last lifecycle call made and destroyed
    calc       \* the last call of a matrix, ray or collision helper, with its result

physVars == <<physics, ppc, obs, hist>>

runVars == <<runA, runB>>

frameVars == <<engine, epc, sysIdx, tick, renderer, cameras>>

xformVars == <<scene, transforms, xpc, xlog>>

ecsVars == <<world, wpc, iter>>

bodyVars == <<config, rbody, bpc, bsnap>>

auxVars == <<registry, input, life>>

vars ==
    << physics, ppc, obs, hist, runA, runB, engine, epc, sysIdx, tick,
       renderer, cameras, scene, transforms, xpc, xlog, world, wpc, iter,
       config, rbody, bpc, bsnap, calc, registry, input, life >>

\* What the actions of the physics loop, of the two runs and of the frame
\* driver leave alone.
physRest == <<runVars, frameVars, xformVars, ecsVars, bodyVars, calc, auxVars>>

runRest == <<physVars, frameVars, xformVars, ecsVars, bodyVars, calc, auxVars>>

frameRest == <<ppc, obs, hist, runVars, xformVars, ecsVars, bodyVars, calc, auxVars>>

xformRest == <<physVars, runVars, frameVars, ecsVars, bodyVars, calc, auxVars>>

ecsRest == <<physVars, runVars, frameVars, xformVars, bodyVars, calc, auxVars>>

bodyRest == <<physVars, runVars, frameVars, xformVars, ecsVars, calc, auxVars>>

calcRest == <<physVars, runVars, frameVars, xformVars, ecsVars, bodyVars, auxVars>>

regRest == <<physVars, runVars, frameVars, xformVars, ecsVars, bodyVars, calc, input, life>>

inputRest == <<physVars, runVars, frameVars, xformVars, ecsVars, bodyVars, calc, registry, life>>

lifeRest == <<physVars, runVars, frameVars, xformVars, ecsVars, bodyVars, calc, registry, input>>

(***************************************************************************)
(* Fixed-timestep physics loop.                                            *)
(***************************************************************************)
NEXUS_PHYSICS_DEFAULT_TIMESTEP == TimeResolution

NEXUS_PHYSICS_DEFAULT_MAX_SUBSTEPS == 10

\* nexus_physics_create: default configuration, empty accumulator, running.
nexus_physics_create ==
    [ fixed_timestep   |-> NEXUS_PHYSICS_DEFAULT_TIMESTEP,
      max_substeps     |-> NEXUS_PHYSICS_DEFAULT_MAX_SUBSTEPS,
      accumulated_time |-> 0,
      iteration_count  |-> 0,
      paused           |-> FALSE ]

\* physics->accumulated_time += dt; physics->iteration_count = 0;
Accumulate(p, dt) ==
    [p EXCEPT !.accumulated_time = p.accumulated_time + dt,
              !.iteration_count = 0]

LoopCondNoCap(p) == p.accumulated_time >= p.fixed_timestep

\* The condition of the while loop of nexus_physics_update.
LoopCond(p) ==
    /\ p.accumulated_time >= p.fixed_timestep
    /\ p.iteration_count < p.max_substeps

\* The tail of the loop body: the accumulator loses one step, the count grows.
ConsumeStep(p) ==
    [p EXCEPT !.accumulated_time = p.accumulated_time - p.fixed_timestep,
              !.iteration_count = p.iteration_count + 1]

DrainCondOffByOne(p) ==
    /\ p.accumulated_time > 0
    /\ p.iteration_count > p.max_substeps

\* The condition of the "remaining time" block after the loop.
DrainCond(p) ==
    /\ p.accumulated_time > 0
    /\ p.iteration_count >= p.max_substeps

\* physics->accumulated_time = 0;
ResetAccumulator(p) == [p EXCEPT !.accumulated_time = 0]

\* The frame time flecs measures when ecs_progress is given delta_time 0: the
\* elapsed wall-clock time, which the frame pacing keeps near the target frame
\* time 1/target_fps and which is never 0.
MeasuredFrameTime(target) ==
    {t \in target .. target + MaxJitter : t > 0}

\* it->delta_time of the callbacks run by ecs_progress(world, delta_time).
EcsProgressDelta(delta_time, target) ==
    IF delta_time = 0 THEN MeasuredFrameTime(target) ELSE {delta_time}

\* The frame times the tests feed to nexus_physics_update: short frames, frames
\* that reach the substep cap, and the frame of 100 fixed steps.
DtInputs(p) ==
    (0 .. MaxDt)
    \cup {p.max_substeps * p.fixed_timestep + r : r \in 0 .. 1}
    \cup {100 * p.fixed_timestep}

NeverPaused(p) == FALSE

\* nexus_physics_is_paused: physics->paused, the flag nexus_physics_update tests
\* at its entry.
nexus_physics_is_paused(p) == p.paused

NoObs ==
    [ kind |-> "none", requested |-> 0, observed |-> 0,
      full |-> 0, drain |-> 0, callDt |-> 0, accBefore |-> 0, ran |-> FALSE ]

NoHist ==
    [ calls |-> 0, totalDt |-> 0, totalSteps |-> 0,
      capReached |-> FALSE, timestepChanged |-> FALSE ]

\* The history after a call that ran (the system was not paused).
Returned(h, p, o) ==
    [h EXCEPT !.calls = h.calls + 1,
              !.totalDt = h.totalDt + o.callDt,
              !.totalSteps = h.totalSteps + o.full,
              !.capReached = h.capReached \/ (p.iteration_count >= p.max_substeps)]

PhysIdle ==
    /\ physics = nexus_physics_create
    /\ ppc = "idle"
    /\ obs = NoObs
    /\ hist = NoHist

\* nexus_physics_update, entry: the early return while paused, else the
\* accumulation of dt.
PhysicsUpdateBegin(dt) ==
    /\ ppc \in {"idle", "returned"}
    /\ hist.calls < MaxCalls
    /\ IF nexus_physics_is_paused(physics)
       THEN /\ physics' = physics
            /\ ppc' = "returned"
            /\ obs' = [NoObs EXCEPT !.callDt = dt,
                                    !.accBefore = physics.accumulated_time]
            /\ hist' = [hist EXCEPT !.calls = hist.calls + 1]
       ELSE /\ physics' = Accumulate(physics, dt)
            /\ ppc' = "loop"
            /\ obs' = [NoObs EXCEPT !.callDt = dt,
                                    !.accBefore = physics.accumulated_time,
                                    !.ran = TRUE]
            /\ hist' = hist
    /\ UNCHANGED physRest

\* One pass of the while loop: target FPS 1/fixed_timestep, ecs_progress(world, 0),
\* then the accumulator update.
PhysicsSubstep ==
    /\ ppc = "loop"
    /\ LoopCond(physics)
    /\ \E m \in EcsProgressDelta(0, physics.fixed_timestep) :
          obs' = [obs EXCEPT !.kind = "full",
                             !.requested = physics.fixed_timestep,
                             !.observed = m,
                             !.full = obs.full + 1]
    /\ physics' = ConsumeStep(physics)
    /\ UNCHANGED <<ppc, hist>>
    /\ UNCHANGED physRest

\* The loop ends; the block after it is entered or the call returns.
PhysicsLoopExit ==
    /\ ppc = "loop"
    /\ ~LoopCond(physics)
    /\ IF DrainCond(physics)
       THEN /\ ppc' = "drain"
            /\ hist' = hist
       ELSE /\ ppc' = "returned"
            /\ hist' = Returned(hist, physics, obs)
    /\ UNCHANGED <<physics, obs>>
    /\ UNCHANGED physRest

\* The "remaining time" block: target FPS 1/remaining_dt, ecs_progress(world, 0),
\* accumulator reset.
PhysicsDrain ==
    /\ ppc = "drain"
    /\ \E m \in EcsProgressDelta(0, physics.accumulated_time) :
          obs' = [obs EXCEPT !.kind = "drain",
                             !.requested = physics.accumulated_time,
                             !.observed = m,
                             !.drain = obs.drain + 1]
    /\ physics' = ResetAccumulator(physics)
    /\ ppc' = "returned"
    /\ hist' = Returned(hist, physics, [obs EXCEPT !.drain = obs.drain + 1])
    /\ UNCHANGED physRest

\* nexus_physics_set_timestep: ignored unless timestep > 0.
nexus_physics_set_timestep(timestep) ==
    /\ ppc \in {"idle", "returned"}
    /\ IF timestep <= 0
       THEN UNCHANGED <<physics, hist>>
       ELSE /\ physics' = [physics EXCEPT !.fixed_timestep = timestep]
            /\ hist' = [hist EXCEPT !.timestepChanged =
                           hist.timestepChanged \/ (timestep # physics.fixed_timestep)]
    /\ ppc' = "idle"
    /\ UNCHANGED obs
    /\ UNCHANGED physRest

\* nexus_physics_pause
nexus_physics_pause(paused) ==
    /\ ppc \in {"idle", "returned"}
    /\ physics' = [physics EXCEPT !.paused = paused]
    /\ ppc' = "idle"
    /\ UNCHANGED <<obs, hist>>
    /\ UNCHANGED physRest

PhysNext ==
    \/ \E dt \in DtInputs(physics) : PhysicsUpdateBegin(dt)
    \/ PhysicsSubstep
    \/ PhysicsLoopExit
    \/ PhysicsDrain
    \/ \E t \in 0 .. MaxTimestep : nexus_physics_set_timestep(t)
    \/ \E b \in BOOLEAN : nexus_physics_pause(b)

(***************************************************************************)
(* Two runs of the physics loop.  Each run owns a NexusPhysics structure   *)
(* and an ECS world with one body (Position, RigidBody awake and not       *)
(* kinematic); both are fed the same frame_dt, step for step.              *)
(***************************************************************************)

\* nexus_physics_system on one body: positions[i].value[1] -= 9.8f * it->delta_time
\* for a body that is neither sleeping nor kinematic (the length unit is 9.8 m
\* per tick squared, so the factor is 1).
nexus_physics_system(body, y, delta_time) ==
    IF ~body.sleeping /\ ~body.kinematic THEN y - delta_time ELSE y

AwakeBody == [sleeping |-> FALSE, kinematic |-> FALSE]

NewRun ==
    [ p |-> nexus_physics_create, pc |-> "idle", calls |-> 0,
      steps |-> 0, lastDt |-> 0, y |-> 0 ]

\* One ecs_progress of the run's world: the physics system moves the body with
\* the delta time the world hands to its callbacks.
RunProgress(r, delta) ==
    [r EXCEPT !.steps = r.steps + 1,
              !.lastDt = delta,
              !.y = nexus_physics_system(AwakeBody, r.y, delta)]

RunBegin(r, dt) ==
    [r EXCEPT !.p = Accumulate(r.p, dt), !.pc = "loop", !.calls = r.calls + 1]

RunSubstep(r, m) ==
    [RunProgress(r, m) EXCEPT !.p = ConsumeStep(r.p)]

RunLoopExit(r) ==
    [r EXCEPT !.pc = IF DrainCond(r.p) THEN "drain" ELSE "idle"]

RunDrain(r, m) ==
    [RunProgress(r, m) EXCEPT !.p = ResetAccumulator(r.p), !.pc = "idle"]

RunsIdle ==
    /\ runA = NewRun
    /\ runB = NewRun

TwoRunsBegin(dt) ==
    /\ runA.pc = "idle" /\ runB.pc = "idle"
    /\ runA.calls < MaxCalls
    /\ runA' = RunBegin(runA, dt)
    /\ runB' = RunBegin(runB, dt)
    /\ UNCHANGED runRest

TwoRunsSubstep ==
    /\ runA.pc = "loop" /\ runB.pc = "loop"
    /\ LoopCond(runA.p) /\ LoopCond(runB.p)
    /\ \E mA \in EcsProgressDelta(0, runA.p.fixed_timestep),
          mB \in EcsProgressDelta(0, runB.p.fixed_timestep) :
          /\ runA' = RunSubstep(runA, mA)
          /\ runB' = RunSubstep(runB, mB)
    /\ UNCHANGED runRest

TwoRunsLoopExit ==
    /\ runA.pc = "loop" /\ runB.pc = "loop"
    /\ ~LoopCond(runA.p) /\ ~LoopCond(runB.p)
    /\ runA' = RunLoopExit(runA)
    /\ runB' = RunLoopExit(runB)
    /\ UNCHANGED runRest

TwoRunsDrain ==
    /\ runA.pc = "drain" /\ runB.pc = "drain"
    /\ \E mA \in EcsProgressDelta(0, runA.p.accumulated_time),
          mB \in EcsProgressDelta(0, runB.p.accumulated_time) :
          /\ runA' = RunDrain(runA, mA)
          /\ runB' = RunDrain(runB, mB)
    /\ UNCHANGED runRest

TwoRunsNext ==
    \/ \E dt \in DtInputs(runA.p) : TwoRunsBegin(dt)
    \/ TwoRunsSubstep
    \/ TwoRunsLoopExit
    \/ TwoRunsDrain

(***************************************************************************)
(* The frame driver: nexus_engine_init builds the world's systems,         *)
(* nexus_engine_update runs one frame tick.                                *)
(***************************************************************************)
MaxFrames == 2
MaxTimeScale == 2
MaxDraws == 6
MaxLifeFrames == 2

\* The phase entities, in the order of the DependsOn chain that
\* nexus_ecs_register_systems builds between them.
Phases ==
    << "Init", "Input", "Physics", "Logic", "Animation",
       "PreRender", "Render", "PostRender", "Cleanup" >>

PhaseRank(phase) == CHOOSE i \in 1 .. Len(Phases) : Phases[i] = phase

\* The systems nexus_physics_create makes: two entities from ecs_new, turned
\* into systems with no query term and no phase.
PhysicsCreateSystems ==
    << [name |-> "", callback |-> "nexus_physics_movement_system", phase |-> "none"],
       [name |-> "", callback |-> "nexus_physics_transform_update_system",
        phase |-> "none"] >>

\* The systems nexus_ecs_register_systems makes, in the order of its
\* ecs_system_init calls, each with the phase entity added to it by ecs_add_id.
RegisterSystems ==
    << [name |-> "NexusTransformSystem", callback |-> "nexus_transform_system",
        phase |-> "PreRender"],
       [name |-> "NexusHierarchySystem", callback |-> "nexus_hierarchy_system",
        phase |-> "PreRender"],
       [name |-> "NexusCameraSystem", callback |-> "nexus_camera_system",
        phase |-> "PreRender"],
       [name |-> "NexusLightSystem", callback |-> "nexus_light_system",
        phase |-> "PreRender"],
       [name |-> "NexusRendererSystem", callback |-> "nexus_renderer_system",
        phase |-> "Render"],
       [name |-> "NexusPhysicsSystem", callback |-> "nexus_physics_system",
        phase |-> "Physics"],
       [name |-> "NexusAnimationSystem", callback |-> "nexus_animation_system",
        phase |-> "Animation"],
       [name |-> "NexusAudioSystem", callback |-> "nexus_audio_system",
        phase |-> "Logic"] >>

\* nexus_engine_init: nexus_physics_create(world) comes before
\* nexus_ecs_register_systems(world), on the same world.  A system's entity id
\* is its rank of creation.
WorldSystems ==
    LET created == PhysicsCreateSystems \o RegisterSystems
    IN  { [id |-> i, callback |-> created[i].callback, phase |-> created[i].phase] :
            i \in 1 .. Len(created) }

Callbacks == {s.callback : s \in WorldSystems}

RECURSIVE SortById(_)
SortById(S) ==
    IF S = {} THEN <<>>
    ELSE LET first == CHOOSE s \in S : \A t \in S : s.id <= t.id
         IN  <<first>> \o SortById(S \ {first})

\* The pipeline of ecs_pipeline_init with the terms {EcsSystem}, {EcsPhase,
\* optional}: every system entity matches the first term; the second asks for
\* the EcsPhase tag on the system itself, which no system carries, and is
\* optional.  No term follows the phase of a system and no order is given, so
\* the matched systems run by entity id.
Pipeline == SortById({s \in WorldSystems : TRUE})

\* The state nexus_engine_init leaves: memset to 0, time_scale 1, running.  A
\* window that cannot be created is a warning and leaves window NULL; the
\* renderer is created for a window only, and a renderer that cannot be created
\* is a warning too.  initialized stands for g_engine != NULL.
nexus_engine_init(has_window, has_renderer) ==
    [ initialized |-> TRUE, running |-> TRUE, delta_time |-> 0, time_scale |-> 1,
      frame_count |-> 0, window |-> has_window,
      renderer |-> has_window /\ has_renderer ]

\* entry is frame_count at the entry of the running nexus_engine_update (-1
\* before the first one); calls are the calls it has made on the engine's
\* subsystems, in order; refused tells that a nexus_engine_update has since
\* returned at its first test.
NoTick ==
    [ progress |-> 0, runs |-> [c \in Callbacks |-> 0], order |-> <<>>, args |-> <<>>,
      entry |-> -1, calls |-> <<>>, refused |-> FALSE ]

\* The start of one ecs_progress(world, delta_time).
ProgressStarted(t, delta_time) ==
    [t EXCEPT !.progress = t.progress + 1,
              !.order = <<>>,
              !.args = Append(t.args, delta_time),
              !.calls = Append(t.calls,
                               [fn |-> "ecs_progress", on |-> "world", arg |-> delta_time])]

\* The rows the queries of nexus_renderer_system (Renderable, Transform) and of
\* nexus_camera_system (Camera, Transform) match: a visible mesh, a hidden one,
\* and the entity of the application's camera.
RenderRows ==
    [ renderables |->
        << [visible |-> TRUE,  mesh |-> TRUE, material |-> TRUE, shader |-> TRUE, triangles |-> 12],
           [visible |-> FALSE, mesh |-> TRUE, material |-> TRUE, shader |-> TRUE, triangles |-> 2] >>,
      cameras |-> << [camera |-> "app", active |-> TRUE, primary |-> TRUE] >> ]

\* renderer->cmd_buffer is "NULL", or points to a command buffer that is "open"
\* (acquired, neither submitted nor cancelled) or "cancelled"; the code can
\* only tell NULL from the rest.  touched keeps the state of the last buffer
\* nexus_renderer_render_mesh has handed to SDL_BeginGPURenderPass.
\* nexus_renderer_begin_frame acquires a buffer: none ("no_buffer"); or one it
\* cancels and leaves in cmd_buffer, before ("no_swapchain") or after
\* ("no_pass") the statistics are reset; or one that stays open ("ok").
nexus_renderer_begin_frame(r, outcome) ==
    [r EXCEPT
       !.cmd_buffer = CASE outcome = "ok" -> "open"
                        [] outcome = "no_buffer" -> "NULL"
                        [] OTHER -> "cancelled",
       !.draw_calls = IF outcome \in {"ok", "no_pass"} THEN 0 ELSE r.draw_calls,
       !.triangle_count = IF outcome \in {"ok", "no_pass"} THEN 0 ELSE r.triangle_count]

\* nexus_renderer_end_frame submits the buffer, unless cmd_buffer is NULL.
nexus_renderer_end_frame(r) == [r EXCEPT !.cmd_buffer = "NULL"]

\* nexus_renderer_render_mesh: nothing without a mesh or a command buffer;
\* without a shader the default shader, which nexus_renderer_create leaves NULL;
\* then a render pass on cmd_buffer, which may fail, the draw and the
\* statistics.  (The test of renderer->window is left out: a renderer exists
\* for a window only.)
nexus_renderer_render_mesh(r, row, pass_ok) ==
    IF ~row.mesh \/ r.cmd_buffer = "NULL" THEN r
    ELSE IF ~row.shader THEN r
    ELSE IF ~pass_ok THEN [r EXCEPT !.touched = r.cmd_buffer]
    ELSE [r EXCEPT !.touched = r.cmd_buffer,
                   !.draw_calls = r.draw_calls + 1,
                   !.triangle_count = r.triangle_count + row.triangles]

\* nexus_renderer_system over its rows: returns at once when
\* nexus_engine_get_renderer() is NULL, else calls nexus_renderer_render_mesh for
\* each row that is visible and has a mesh and a material.
nexus_renderer_system(has_renderer, r, t, pass_ok) ==
    LET RECURSIVE Loop(_, _, _)
        Loop(i, ri, ti) ==
            IF i > Len(RenderRows.renderables) THEN [r |-> ri, t |-> ti]
            ELSE LET row == RenderRows.renderables[i]
                 IN  IF row.visible /\ row.mesh /\ row.material
                     THEN Loop(i + 1, nexus_renderer_render_mesh(ri, row, pass_ok),
                               [ti EXCEPT !.calls = Append(ti.calls,
                                   [fn |-> "nexus_renderer_render_mesh",
                                    on |-> "renderer", arg |-> i])])
                     ELSE Loop(i + 1, ri, ti)
    IN  IF has_renderer THEN Loop(1, r, t) ELSE [r |-> r, t |-> t]

\* nexus_camera_system over its rows: for an active camera that is primary, and
\* with a renderer, nexus_renderer_set_camera(renderer, cameras[i].camera),
\* which stores the pointer in renderer->main_camera.
nexus_camera_system(has_renderer, r, t) ==
    LET RECURSIVE Loop(_, _, _)
        Loop(i, ri, ti) ==
            IF i > Len(RenderRows.cameras) THEN [r |-> ri, t |-> ti]
            ELSE LET row == RenderRows.cameras[i]
                 IN  IF row.active /\ row.primary /\ has_renderer
                     THEN Loop(i + 1, [ri EXCEPT !.main_camera = row.camera],
                               [ti EXCEPT !.calls = Append(ti.calls,
                                   [fn |-> "nexus_renderer_set_camera",
                                    on |-> "renderer", arg |-> i])])
                     ELSE Loop(i + 1, ri, ti)
    IN  Loop(1, r, t)

\* A system callback has run.
SystemRan(t, sys) ==
    [t EXCEPT !.runs[sys.callback] = t.runs[sys.callback] + 1,
              !.order = Append(t.order, sys.id)]

\* The frame times SDL_GetTicks can measure for a frame: short frames and one
\* hitch longer than max_substeps fixed steps.
FrameTimes(p) == (0 .. MaxDt) \cup {p.max_substeps * p.fixed_timestep + 1}

\* After nexus_engine_init: nexus_renderer_create has zeroed the renderer and
\* made its default camera with nexus_camera_create; the application has made a
\* camera of its own.
FrameCreated(has_window, has_renderer) ==
    /\ engine = nexus_engine_init(has_window, has_renderer)
    /\ epc = "idle"
    /\ sysIdx = 0
    /\ tick = NoTick
    /\ renderer =
          [ cmd_buffer |-> "NULL", touched |-> "none", draw_calls |-> 0,
            triangle_count |-> 0,
            main_camera |-> IF has_window /\ has_renderer THEN "default" ELSE "NULL" ]
    /\ cameras =
          [ c \in {"default", "app"} |->
              [ by |-> IF c = "app" THEN "application"
                       ELSE IF has_window /\ has_renderer THEN "renderer" ELSE "none",
                destroyed |-> 0 ] ]

FrameIdle == FrameCreated(TRUE, TRUE)

EngineNeverStops(e) == TRUE

\* nexus_engine_is_running: g_engine != NULL && g_engine->running, the test
\* nexus_engine_update makes at its entry.
nexus_engine_is_running(e) == e.initialized /\ e.running

\* The event loop and nexus_window_should_close are inside
\* if (g_engine->window != NULL): without a window no event is seen.
EventSeenWithoutWindow(e, event) == event

EventSeen(e, event) == IF e.window THEN event ELSE "none"

\* nexus_engine_update from its entry to the call of ecs_progress: the guard,
\* the event loop (a quit event stops the engine and the frame goes on; a window
\* that should close stops the engine and returns), nexus_input_update.
EngineUpdateBegin(event) ==
    /\ epc = "idle"
    /\ engine.initialized
    /\ engine.frame_count < MaxFrames
    /\ IF ~nexus_engine_is_running(engine)
       THEN /\ tick' = [tick EXCEPT !.refused = TRUE]
            /\ UNCHANGED <<engine, epc, sysIdx>>
       ELSE LET seen == EventSeen(engine, event)
                entered ==
                    [NoTick EXCEPT
                       !.entry = engine.frame_count,
                       !.calls = IF engine.window
                                 THEN << [fn |-> "nexus_window_should_close",
                                          on |-> "window", arg |-> 0] >>
                                 ELSE <<>>]
            IN  IF seen = "close"
                THEN /\ engine' = [engine EXCEPT !.running = FALSE]
                     /\ tick' = entered
                     /\ UNCHANGED <<epc, sysIdx>>
                ELSE /\ engine' = [engine EXCEPT !.running = (seen # "quit")]
                     /\ epc' = "progress"
                     /\ sysIdx' = 1
                     /\ tick' = ProgressStarted(entered,
                                                engine.delta_time * engine.time_scale)
    /\ UNCHANGED <<physics, renderer, cameras>>
    /\ UNCHANGED frameRest

\* ecs_progress runs the next system of the pipeline.
RunSystem ==
    /\ epc \in {"progress", "substep", "drain"}
    /\ sysIdx <= Len(Pipeline)
    /\ \E pass_ok \in BOOLEAN :
          LET callback == Pipeline[sysIdx].callback
              ran == SystemRan(tick, Pipeline[sysIdx])
              out == IF callback = "nexus_renderer_system"
                     THEN nexus_renderer_system(engine.renderer, renderer, ran, pass_ok)
                     ELSE IF callback = "nexus_camera_system"
                     THEN nexus_camera_system(engine.renderer, renderer, ran)
                     ELSE [r |-> renderer, t |-> ran]
          IN  /\ tick' = out.t
              /\ renderer' = out.r
    /\ sysIdx' = sysIdx + 1
    /\ UNCHANGED <<engine, epc, physics, cameras>>
    /\ UNCHANGED frameRest

\* The frame's ecs_progress returns and nexus_physics_update is entered.
EcsProgressReturn ==
    /\ epc = "progress"
    /\ sysIdx > Len(Pipeline)
    /\ IF nexus_physics_is_paused(physics)
       THEN /\ epc' = "tail"
            /\ physics' = physics
       ELSE /\ epc' = "physloop"
            /\ physics' = Accumulate(physics, engine.delta_time * engine.time_scale)
    /\ tick' = [tick EXCEPT !.calls = Append(tick.calls,
                    [fn |-> "nexus_physics_update", on |-> "physics",
                     arg |-> engine.delta_time * engine.time_scale])]
    /\ UNCHANGED <<engine, sysIdx, renderer, cameras>>
    /\ UNCHANGED frameRest

\* The head of the while loop and the test of the block after it: each calls
\* ecs_progress(physics->world, 0) on the engine's world.
PhysicsLoopHead ==
    /\ epc = "physloop"
    /\ IF LoopCond(physics)
       THEN /\ epc' = "substep"
            /\ sysIdx' = 1
            /\ tick' = ProgressStarted(tick, 0)
       ELSE IF DrainCond(physics)
       THEN /\ epc' = "drain"
            /\ sysIdx' = 1
            /\ tick' = ProgressStarted(tick, 0)
       ELSE /\ epc' = "tail"
            /\ UNCHANGED <<sysIdx, tick>>
    /\ UNCHANGED <<engine, physics, renderer, cameras>>
    /\ UNCHANGED frameRest

\* The ecs_progress of a full substep returns.
SubstepReturn ==
    /\ epc = "substep"
    /\ sysIdx > Len(Pipeline)
    /\ physics' = ConsumeStep(physics)
    /\ epc' = "physloop"
    /\ UNCHANGED <<engine, sysIdx, tick, renderer, cameras>>
    /\ UNCHANGED frameRest

\* The ecs_progress of the remaining time returns.
DrainReturn ==
    /\ epc = "drain"
    /\ sysIdx > Len(Pipeline)
    /\ physics' = ResetAccumulator(physics)
    /\ epc' = "tail"
    /\ UNCHANGED <<engine, sysIdx, tick, renderer, cameras>>
    /\ UNCHANGED frameRest

\* The rest of nexus_engine_update: nexus_audio_update; with a renderer,
\* nexus_renderer_begin_frame and, if it succeeds, nexus_renderer_end_frame;
\* with a window, nexus_window_update; frame_count++, delta_time = the measured
\* frame time; with a renderer, nexus_renderer_set_frame_time.
EngineUpdateEnd ==
    /\ epc = "tail"
    /\ \E frame_time \in FrameTimes(physics),
          begin \in {"ok", "no_buffer", "no_swapchain", "no_pass"} :
          LET call(fn, on) == [fn |-> fn, on |-> on, arg |-> 0]
              framed == IF ~engine.renderer THEN <<>>
                        ELSE IF begin = "ok"
                        THEN << call("nexus_renderer_begin_frame", "renderer"),
                                call("nexus_renderer_end_frame", "renderer") >>
                        ELSE << call("nexus_renderer_begin_frame", "renderer") >>
              shown == IF engine.window
                       THEN << call("nexus_window_update", "window") >> ELSE <<>>
              timed == IF engine.renderer
                       THEN << call("nexus_renderer_set_frame_time", "renderer") >>
                       ELSE <<>>
          IN  /\ tick' = [tick EXCEPT !.calls =
                            Append(tick.calls, call("nexus_audio_update", "audio"))
                               \o framed \o shown \o timed]
              /\ renderer' =
                    IF ~engine.renderer THEN renderer
                    ELSE IF begin = "ok"
                    THEN nexus_renderer_end_frame(nexus_renderer_begin_frame(renderer, begin))
                    ELSE nexus_renderer_begin_frame(renderer, begin)
              /\ engine' = [engine EXCEPT !.frame_count = engine.frame_count + 1,
                                          !.delta_time = frame_time]
    /\ epc' = "idle"
    /\ UNCHANGED <<sysIdx, physics, cameras>>
    /\ UNCHANGED frameRest

nexus_engine_request_exit ==
    /\ epc = "idle"
    /\ engine.initialized
    /\ engine' = [engine EXCEPT !.running = FALSE]
    /\ UNCHANGED <<epc, sysIdx, tick, physics, renderer, cameras>>
    /\ UNCHANGED frameRest

nexus_engine_set_time_scale(scale) ==
    /\ epc = "idle"
    /\ engine.initialized
    /\ engine' = [engine EXCEPT !.time_scale = scale]
    /\ UNCHANGED <<epc, sysIdx, tick, physics, renderer, cameras>>
    /\ UNCHANGED frameRest

\* The application hands a camera of its own to the renderer, between frames.
nexus_renderer_set_camera(camera) ==
    /\ epc = "idle"
    /\ engine.initialized
    /\ engine.renderer
    /\ renderer.main_camera # camera
    /\ renderer' = [renderer EXCEPT !.main_camera = camera]
    /\ UNCHANGED <<engine, epc, sysIdx, tick, physics, cameras>>
    /\ UNCHANGED frameRest

\* The application drives the renderer itself: nexus_renderer_begin_frame,
\* nexus_renderer_render_mesh of a mesh and nexus_renderer_end_frame, in any
\* order.
RenderBeginFrame(outcome) ==
    /\ renderer' = nexus_renderer_begin_frame(renderer, outcome)
    /\ UNCHANGED <<engine, epc, sysIdx, tick, physics, cameras>>
    /\ UNCHANGED frameRest

RenderMesh(row, pass_ok) ==
    /\ renderer.draw_calls < MaxDraws
    /\ renderer' = nexus_renderer_render_mesh(renderer, row, pass_ok)
    /\ UNCHANGED <<engine, epc, sysIdx, tick, physics, cameras>>
    /\ UNCHANGED frameRest

RenderEndFrame ==
    /\ renderer' = nexus_renderer_end_frame(renderer)
    /\ UNCHANGED <<engine, epc, sysIdx, tick, physics, cameras>>
    /\ UNCHANGED frameRest

RenderNext ==
    \/ \E outcome \in {"ok", "no_buffer", "no_swapchain", "no_pass"} :
          RenderBeginFrame(outcome)
    \/ \E i \in DOMAIN RenderRows.renderables, pass_ok \in BOOLEAN :
          RenderMesh(RenderRows.renderables[i], pass_ok)
    \/ RenderEndFrame

\* nexus_engine_shutdown: running = false; nexus_renderer_destroy, if there is
\* a renderer, calls nexus_camera_destroy on renderer->main_camera, whichever
\* camera that is; the engine structure is freed and g_engine set to NULL.
nexus_engine_shutdown ==
    /\ epc = "idle"
    /\ engine.initialized
    /\ engine' = [engine EXCEPT !.initialized = FALSE, !.running = FALSE,
                                !.window = FALSE, !.renderer = FALSE]
    /\ IF engine.renderer /\ renderer.main_camera # "NULL"
       THEN /\ cameras' = [cameras EXCEPT ![renderer.main_camera].destroyed =
                                            cameras[renderer.main_camera].destroyed + 1]
            /\ renderer' = [renderer EXCEPT !.main_camera = "NULL"]
       ELSE UNCHANGED <<cameras, renderer>>
    /\ UNCHANGED <<epc, sysIdx, tick, physics>>
    /\ UNCHANGED frameRest

FrameNext ==
    \/ \E event \in {"none", "quit", "close"} : EngineUpdateBegin(event)
    \/ RunSystem
    \/ EcsProgressReturn
    \/ PhysicsLoopHead
    \/ SubstepReturn
    \/ DrainReturn
    \/ EngineUpdateEnd
    \/ nexus_engine_request_exit
    \/ \E scale \in 0 .. MaxTimeScale : nexus_engine_set_time_scale(scale)
    \/ nexus_renderer_set_camera("app")
    \/ nexus_engine_shutdown

(***************************************************************************)
(* The transform and hierarchy systems.  A 4x4 matrix is modelled by the   *)
(* affine map x -> a * x + b of one axis, which keeps what the claims need *)
(* of it: products do not commute and the identity is neutral.  Rotations  *)
(* are the identity.                                                       *)
(***************************************************************************)
MaxChain == 3
MaxPos == 1
MaxScale == 2
MaxXFrames == 2

Entities == 1 .. MaxChain

glm_mat4_identity == [a |-> 1, b |-> 0]

\* glm_mat4_mul(m1, m2, dest): dest = m1 * m2.
glm_mat4_mul(m1, m2) == [a |-> m1.a * m2.a, b |-> m1.a * m2.b + m1.b]

\* glm_translate(m, v): m = m * translation(v).
glm_translate(m, v) == glm_mat4_mul(m, [a |-> 1, b |-> v])

\* glm_scale(m, v): m = m * scaling(v).
glm_scale(m, v) == glm_mat4_mul(m, [a |-> v, b |-> 0])

\* The local matrix nexus_transform_system builds: identity, translation,
\* rotation (the identity here), scale.
ModelMatrix(position, scale) ==
    glm_scale(glm_mat4_mul(glm_translate(glm_mat4_identity, position),
                           glm_mat4_identity),
              scale)

\* The Transform the auto-add observer gives an entity: identity matrices, dirty.
NewTransform ==
    [local |-> glm_mat4_identity, world |-> glm_mat4_identity, dirty |-> TRUE]

\* nexus_transform_system on one row: a dirty transform gets its local matrix
\* rebuilt and copied to world, and is marked clean.
nexus_transform_system(t, position, scale) ==
    IF t.dirty
    THEN [local |-> ModelMatrix(position, scale),
          world |-> ModelMatrix(position, scale),
          dirty |-> FALSE]
    ELSE t

\* nexus_hierarchy_system (first implementation) on one row: an entity with a
\* parent gets parent.world * local as its world matrix.
nexus_hierarchy_system_first(ts, e, parent) ==
    IF parent # 0
    THEN [ts EXCEPT ![e].world = glm_mat4_mul(ts[parent].world, ts[e].local)]
    ELSE ts

\* nexus_hierarchy_system on one row: a dirty transform gets local copied to
\* world and is marked clean; parents are not looked at.
nexus_hierarchy_system(ts, e, parent) ==
    IF ts[e].dirty
    THEN [ts EXCEPT ![e].world = ts[e].local, ![e].dirty = FALSE]
    ELSE ts

RECURSIVE Reaches(_, _, _, _)
Reaches(parent, e, target, fuel) ==
    IF e = 0 \/ fuel = 0 THEN FALSE
    ELSE IF e = target THEN TRUE
    ELSE Reaches(parent, parent[e], target, fuel - 1)

\* Parent maps (0: no parent) without cycles.
ParentMaps ==
    { parent \in [Entities -> 0 .. MaxChain] :
        \A e \in Entities : ~Reaches(parent, parent[e], e, MaxChain) }

\* The orders in which the world can store the entities: the tables of children
\* of different parents are distinct, and they are iterated in the order of
\* their creation, which follows the order in which the application made the
\* entities and parented them.
StorageOrders ==
    { order \in [1 .. MaxChain -> Entities] :
        \A i, j \in 1 .. MaxChain : i # j => order[i] # order[j] }

Scenes ==
    [ impl      : {1, 2},
      parent    : ParentMaps,
      order     : StorageOrders,
      positions : [Entities -> {0}],
      scales    : [Entities -> 1 .. MaxScale] ]

NoXlog == [done |-> {}, early |-> {}]

XformIdle ==
    /\ scene = [ impl |-> 2,
                 parent |-> [e \in Entities |-> 0],
                 order |-> [i \in 1 .. MaxChain |-> i],
                 positions |-> [e \in Entities |-> 0],
                 scales |-> [e \in Entities |-> 1] ]
    /\ transforms = [e \in Entities |-> NewTransform]
    /\ xpc = [pc |-> "idle", i |-> 0, frames |-> 0]
    /\ xlog = NoXlog

\* The application moves an entity between frames and marks its transform
\* dirty, as the physics system of the first implementation does after it has
\* changed a position.
SetPosition(e, v) ==
    /\ xpc.pc \in {"idle", "frameEnd"}
    /\ xpc.frames < MaxXFrames
    /\ scene' = [scene EXCEPT !.positions[e] = v]
    /\ transforms' = [transforms EXCEPT ![e].dirty = TRUE]
    /\ xpc' = [xpc EXCEPT !.pc = "idle"]
    /\ UNCHANGED xlog
    /\ UNCHANGED xformRest

\* A frame starts: the pipeline reaches the transform system.
XformFrameBegin ==
    /\ xpc.pc \in {"idle", "frameEnd"}
    /\ xpc.frames < MaxXFrames
    /\ xpc' = [xpc EXCEPT !.pc = "transform", !.i = 1]
    /\ xlog' = NoXlog
    /\ UNCHANGED <<scene, transforms>>
    /\ UNCHANGED xformRest

\* One pass of the loop of nexus_transform_system.
TransformStep ==
    /\ xpc.pc = "transform"
    /\ xpc.i <= MaxChain
    /\ LET e == scene.order[xpc.i]
       IN  transforms' =
             [transforms EXCEPT ![e] =
                nexus_transform_system(transforms[e], scene.positions[e], scene.scales[e])]
    /\ xpc' = [xpc EXCEPT !.i = xpc.i + 1]
    /\ UNCHANGED <<scene, xlog>>
    /\ UNCHANGED xformRest

\* One pass of the loop of nexus_hierarchy_system, of the implementation built.
HierarchyStep ==
    /\ xpc.pc = "hierarchy"
    /\ xpc.i <= MaxChain
    /\ LET e == scene.order[xpc.i]
           parent == scene.parent[e]
       IN  /\ transforms' =
                IF scene.impl = 1
                THEN nexus_hierarchy_system_first(transforms, e, parent)
                ELSE nexus_hierarchy_system(transforms, e, parent)
           /\ xlog' =
                [ done  |-> xlog.done \cup {e},
                  early |-> IF /\ scene.impl = 1
                               /\ parent # 0
                               /\ scene.parent[parent] # 0
                               /\ parent \notin xlog.done
                            THEN xlog.early \cup {<<e, parent>>}
                            ELSE xlog.early ]
    /\ xpc' = [xpc EXCEPT !.i = xpc.i + 1]
    /\ UNCHANGED scene
    /\ UNCHANGED xformRest

\* A system has gone through its rows: the hierarchy system follows the
\* transform system, the end of the frame follows the hierarchy system.
XformSystemReturn ==
    /\ xpc.pc \in {"transform", "hierarchy"}
    /\ xpc.i > MaxChain
    /\ xpc' = IF xpc.pc = "transform"
              THEN [xpc EXCEPT !.pc = "hierarchy", !.i = 1]
              ELSE [xpc EXCEPT !.pc = "frameEnd", !.i = 0, !.frames = xpc.frames + 1]
    /\ UNCHANGED <<scene, transforms, xlog>>
    /\ UNCHANGED xformRest

XformNext ==
    \/ \E e \in Entities, v \in 0 .. MaxPos : SetPosition(e, v)
    \/ XformFrameBegin
    \/ TransformStep
    \/ HierarchyStep
    \/ XformSystemReturn

(***************************************************************************)
(* The ECS world with the observers of nexus_ecs_register_components.      *)
(* A table holds the entities of one archetype in rows; an entity that     *)
(* gains a component moves to the end of another table and the last row of *)
(* the table it leaves takes its place.  An operation issued while another *)
(* is running (through it->world, from a system or an observer callback)   *)
(* is put on the command queue and applied when the running one has ended: *)
(* the system for a request of a system callback, the operation that       *)
(* raised the event for a request of an observer.                          *)
(***************************************************************************)
MaxEcsEntities == 2
MaxOps == 3

EcsEntities == 1 .. MaxEcsEntities

Components == {"Position", "Rotation", "Scale", "Transform", "Camera"}

Archetypes == SUBSET Components

Rows(table) == {table[k] : k \in 1 .. Len(table)}

Alive(w, e) == \E A \in Archetypes : e \in Rows(w.tables[A])

ArchetypeOf(w, e) == CHOOSE A \in Archetypes : e \in Rows(w.tables[A])

RowOf(table, e) == CHOOSE k \in 1 .. Len(table) : table[k] = e

\* ecs_has(world, entity, component)
ecs_has(w, e, c) == Alive(w, e) /\ c \in ArchetypeOf(w, e)

\* The table without the row of e: the last row moves into the hole.
RemoveRow(table, e) ==
    LET k == RowOf(table, e)
        n == Len(table)
    IN  [j \in 1 .. n - 1 |-> IF j = k THEN table[n] ELSE table[j]]

\* The tables after e has moved to the table of archetype A.
MoveEntity(tables, e, from, A) ==
    [tables EXCEPT ![from] = RemoveRow(tables[from], e),
                   ![A] = Append(tables[A], e)]

\* The change an operation makes: a set of a component the entity lacks moves
\* it to the table with that component, a set of a Camera leaves the value set
\* in the component, a delete takes the entity out of its table.  An operation
\* on an entity that is no longer alive is dropped.
ApplyStructural(w, cmd) ==
    IF ~Alive(w, cmd.e) THEN w
    ELSE LET from == ArchetypeOf(w, cmd.e)
             set == IF cmd.c = "Camera"
                    THEN [w EXCEPT !.primary[cmd.e] = cmd.primary]
                    ELSE w
         IN  IF cmd.op = "delete"
             THEN [w EXCEPT !.tables[from] = RemoveRow(w.tables[from], cmd.e),
                            !.primary[cmd.e] = FALSE]
             ELSE IF cmd.c \in from THEN set
             ELSE [set EXCEPT !.tables = MoveEntity(w.tables, cmd.e, from, from \cup {cmd.c})]

ApplyRequestNow(w, cmd) == ApplyStructural(w, cmd)

\* An operation issued through it->world while a callback runs: queued.  The
\* operations queued while a queued operation is applied run as soon as it has
\* ended, before the operations queued earlier that still wait: they go, in
\* their order, in front of those (nested is how many went there already).
DeferRequest(w, cmd) ==
    [w EXCEPT !.queue = SubSeq(w.queue, 1, w.nested) \o <<cmd>>
                        \o SubSeq(w.queue, w.nested + 1, Len(w.queue)),
              !.nested = w.nested + 1]

\* The observer events an operation raises once its change is made.  The
\* Transform observer (OnAdd; Position, Rotation, Scale) fires when an entity
\* comes to hold all three.  The camera observer (OnAdd, OnSet; Camera) fires
\* on the add, when the component's memory holds what was there before, and on
\* the set, when it holds the value set.  A world whose components were
\* registered by components_new.c has neither observer.
EventsOf(w, cmd) ==
    IF ~w.observers \/ ~Alive(w, cmd.e) \/ cmd.op = "delete" THEN <<>>
    ELSE LET from == ArchetypeOf(w, cmd.e)
             PRS == {"Position", "Rotation", "Scale"}
         IN  IF cmd.c = "Camera"
             THEN (IF "Camera" \in from THEN <<>>
                   ELSE <<[observer |-> "camera", e |-> cmd.e, value |-> cmd.garbage]>>)
                  \o <<[observer |-> "camera", e |-> cmd.e, value |-> cmd.primary]>>
             ELSE IF cmd.c \in PRS /\ cmd.c \notin from /\ PRS \subseteq (from \cup {cmd.c})
             THEN <<[observer |-> "transform", e |-> cmd.e, value |-> FALSE]>>
             ELSE <<>>

NoIter ==
    [ active |-> FALSE, kind |-> "none", arch |-> {}, offset |-> 0, count |-> 0,
      rows |-> <<>>, i |-> 0, visited |-> <<>> ]

\* The iterator a callback is given: count rows of a table from offset on.
BatchIter(w, kind, A, offset, count) ==
    [ active |-> TRUE, kind |-> kind, arch |-> A, offset |-> offset, count |-> count,
      rows |-> [k \in 1 .. count |-> w.tables[A][offset + k - 1]],
      i |-> 1, visited |-> <<>> ]

\* it->entities as the callback finds it now: the rows of the table itself.
LiveRows(w, it) ==
    [k \in 1 .. it.count |->
        IF it.offset + k - 1 <= Len(w.tables[it.arch])
        THEN w.tables[it.arch][it.offset + k - 1]
        ELSE 0]

\* The observer called for an event: its batch is the row of the entity, and
\* the component memory of a camera event holds the event's value.
DeliverEvent(w, ev) ==
    LET A == ArchetypeOf(w, ev.e)
    IN  BatchIter(w, ev.observer, A, RowOf(w.tables[A], ev.e), 1)

EventMemory(w, ev) ==
    IF ev.observer = "camera" THEN [w EXCEPT !.primary[ev.e] = ev.value] ELSE w

\* The body of the Transform observer for one entity: ecs_set_ptr of an
\* identity Transform through it->world unless the entity has one.
TransformObserver(w, entity) ==
    IF ~ecs_has(w, entity, "Transform")
    THEN DeferRequest(w, [op |-> "set", e |-> entity, c |-> "Transform",
                          primary |-> FALSE, garbage |-> FALSE])
    ELSE w

\* The body of the camera observer for one entity: when its camera is primary,
\* every other camera loses the flag.
CameraObserver(w, entity) ==
    IF w.primary[entity]
    THEN [w EXCEPT !.primary = [x \in EcsEntities |-> x = entity]]
    ELSE w

\* The operations an application or a system callback asks for.
Requests(e) ==
    { [op |-> "set", e |-> e, c |-> c, primary |-> FALSE, garbage |-> FALSE] :
        c \in Components \ {"Camera"} }
    \cup { [op |-> "set", e |-> e, c |-> "Camera", primary |-> p, garbage |-> g] :
             p \in BOOLEAN, g \in BOOLEAN }
    \cup { [op |-> "delete", e |-> e, c |-> "none", primary |-> FALSE, garbage |-> FALSE] }

\* ecs_init, nexus_ecs_register_components and ecs_new: the entities hold no
\* component yet.  The repository has two nexus_ecs_register_components: the
\* one of components.c registers the two observers, the one of
\* components_new.c registers none.
EcsCreated(observers) ==
    /\ world = [ tables  |-> [A \in Archetypes |->
                                IF A = {} THEN [k \in 1 .. MaxEcsEntities |-> k] ELSE <<>>],
                 observers |-> observers,
                 primary |-> [e \in EcsEntities |-> FALSE],
                 queue   |-> <<>>,
                 nested  |-> 0,
                 ops     |-> 0 ]
    /\ wpc = [pc |-> "idle", events |-> <<>>]
    /\ iter = NoIter

\* The application calls ecs_set or ecs_delete on the world: the operation runs
\* with the queue open and the queue is applied when it ends.
AppRequest(cmd) ==
    /\ wpc.pc = "idle"
    /\ world.ops < MaxOps
    /\ world' = [DeferRequest(world, cmd) EXCEPT !.ops = world.ops + 1]
    /\ wpc' = [wpc EXCEPT !.pc = "flush"]
    /\ UNCHANGED iter
    /\ UNCHANGED ecsRest

\* The next queued operation is applied; the first observer event it raises
\* is delivered.
FlushStep ==
    /\ wpc.pc = "flush"
    /\ world.queue # <<>>
    /\ LET cmd == Head(world.queue)
           events == EventsOf(world, cmd)
           w == [ApplyStructural(world, cmd) EXCEPT !.queue = Tail(world.queue),
                                                    !.nested = 0]
       IN  IF events = <<>>
           THEN /\ world' = w
                /\ UNCHANGED <<wpc, iter>>
           ELSE /\ world' = EventMemory(w, Head(events))
                /\ wpc' = [pc |-> "observer", events |-> Tail(events)]
                /\ iter' = DeliverEvent(w, Head(events))
    /\ UNCHANGED ecsRest

\* One pass of the loop of an observer callback.
ObserverVisit ==
    /\ wpc.pc = "observer"
    /\ iter.i <= iter.count
    /\ LET entity == LiveRows(world, iter)[iter.i]
       IN  /\ world' = IF iter.kind = "transform"
                       THEN TransformObserver(world, entity)
                       ELSE CameraObserver(world, entity)
           /\ iter' = [iter EXCEPT !.i = iter.i + 1,
                                   !.visited = Append(iter.visited, entity)]
    /\ UNCHANGED wpc
    /\ UNCHANGED ecsRest

\* The observer callback returns: the next event of the operation is
\* delivered, or the queue goes on.
ObserverReturn ==
    /\ wpc.pc = "observer"
    /\ iter.i > iter.count
    /\ IF wpc.events = <<>>
       THEN /\ wpc' = [pc |-> "flush", events |-> <<>>]
            /\ iter' = NoIter
            /\ world' = world
       ELSE /\ wpc' = [wpc EXCEPT !.events = Tail(wpc.events)]
            /\ iter' = DeliverEvent(world, Head(wpc.events))
            /\ world' = EventMemory(world, Head(wpc.events))
    /\ UNCHANGED ecsRest

\* The queue is empty: the operation that opened it is over.
FlushEnd ==
    /\ wpc.pc = "flush"
    /\ world.queue = <<>>
    /\ wpc' = [wpc EXCEPT !.pc = "idle"]
    /\ UNCHANGED <<world, iter>>
    /\ UNCHANGED ecsRest

\* ecs_progress calls a system on a table that matches it.
SystemBegin(A) ==
    /\ wpc.pc = "idle"
    /\ world.tables[A] # <<>>
    /\ wpc' = [wpc EXCEPT !.pc = "system"]
    /\ iter' = BatchIter(world, "system", A, 1, Len(world.tables[A]))
    /\ UNCHANGED world
    /\ UNCHANGED ecsRest

\* One pass of the loop of a system callback, which may ask for an operation
\* on the entity of the row through it->world, as nexus_physics_system (first
\* implementation) does with ecs_get_mut for a Transform.
SystemVisit(ask) ==
    /\ wpc.pc = "system"
    /\ iter.i <= iter.count
    /\ LET entity == LiveRows(world, iter)[iter.i]
       IN  /\ IF ask /\ world.ops < MaxOps /\ entity # 0
              THEN \E cmd \in Requests(entity) :
                      world' = [DeferRequest(world, cmd) EXCEPT !.ops = world.ops + 1]
              ELSE world' = world
           /\ iter' = [iter EXCEPT !.i = iter.i + 1,
                                   !.visited = Append(iter.visited, entity)]
    /\ UNCHANGED wpc
    /\ UNCHANGED ecsRest

\* The system callback returns; the queue is applied.
SystemEnd ==
    /\ wpc.pc = "system"
    /\ iter.i > iter.count
    /\ wpc' = [wpc EXCEPT !.pc = "flush"]
    /\ iter' = NoIter
    /\ UNCHANGED world
    /\ UNCHANGED ecsRest

EcsNext ==
    \/ \E e \in EcsEntities : \E cmd \in Requests(e) : AppRequest(cmd)
    \/ FlushStep
    \/ ObserverVisit
    \/ ObserverReturn
    \/ FlushEnd
    \/ \E A \in Archetypes : SystemBegin(A)
    \/ \E ask \in BOOLEAN : SystemVisit(ask)
    \/ SystemEnd

(***************************************************************************)
(* One rigid body under the systems of the world: an entity with Position, *)
(* Velocity, Rotation, Scale, Transform and RigidBody, moved by one        *)
(* ecs_progress after the other.  Positions and velocities are those of    *)
(* the Y axis; the rotation is the Euler angle about Y.                    *)
(***************************************************************************)
MaxBodySteps == 2
MaxGravity == 2
MaxVelocity == 1
MaxStepDt == 2

\* -9.81f, in the length unit of nexus_physics_system (9.8 m per tick squared).
NEXUS_PHYSICS_DEFAULT_GRAVITY_Y == -1

\* The entity create_scene builds for a body: the components set with ecs_set,
\* the Transform identity and dirty.
NewBody(sleeping, kinematic, velocity) ==
    [ rigid |-> [sleeping |-> sleeping, kinematic |-> kinematic],
      position |-> 0, velocity |-> velocity, euler |-> 0, scale |-> 1,
      transform |-> NewTransform ]

\* The pipeline over the world's systems and the application's
\* CubeRotationSystem, which create_scene registers after nexus_engine_init has
\* returned.
BodyPipeline ==
    SortById(WorldSystems \cup
        { [id |-> Cardinality(WorldSystems) + 1, callback |-> "cube_update_system",
           phase |-> "none"] })

\* nexus_physics_movement_system on one row: position += linear * delta_time.
nexus_physics_movement_system(b, delta_time) ==
    [b EXCEPT !.position = b.position + b.velocity * delta_time]

\* nexus_physics_transform_update_system on one row: dirty = true, local =
\* translation * rotation, world = local.
nexus_physics_transform_update_system(b) ==
    LET local == glm_mat4_mul(glm_translate(glm_mat4_identity, b.position),
                              glm_mat4_identity)
    IN  [b EXCEPT !.transform = [local |-> local, world |-> local, dirty |-> TRUE]]

\* ROTATION_SPEED * delta_time with fmodf(.., 360): the angle unit is what the
\* cube turns in one tick, a full turn takes 360 / 45 seconds.
cube_update_system(b, delta_time) ==
    [b EXCEPT !.euler = (b.euler + delta_time) % (8 * 60 * TimeResolution)]

\* One system of the pipeline on the body.  The two systems nexus_physics_create
\* makes have no query term (phase "none" and no name): the world runs such a
\* system once per frame with it->count = 0, so the loop over the rows of its
\* callback has nothing to visit.
RunCallback(sys, b, delta_time) ==
    IF sys \in {PhysicsCreateSystems[k] @@ [id |-> k] :
                    k \in 1 .. Len(PhysicsCreateSystems)}
    THEN b
    ELSE CASE sys.callback = "nexus_physics_movement_system" ->
                nexus_physics_movement_system(b, delta_time)
           [] sys.callback = "nexus_physics_transform_update_system" ->
                nexus_physics_transform_update_system(b)
           [] sys.callback = "nexus_transform_system" ->
                [b EXCEPT !.transform =
                     nexus_transform_system(b.transform, b.position, b.scale)]
           [] sys.callback = "nexus_hierarchy_system" ->
                [b EXCEPT !.transform =
                     nexus_hierarchy_system([e \in {1} |-> b.transform], 1, 0)[1]]
           [] sys.callback = "nexus_physics_system" ->
                [b EXCEPT !.position =
                     nexus_physics_system(b.rigid, b.position, delta_time)]
           [] sys.callback = "cube_update_system" ->
                cube_update_system(b, delta_time)
           [] OTHER -> b

\* nexus_physics_create and create_scene have returned: the default gravity, a
\* body, no step taken, nothing changed since.
BodyCreated(b) ==
    /\ config = [gravity |-> NEXUS_PHYSICS_DEFAULT_GRAVITY_Y]
    /\ rbody = b
    /\ bpc = [pc |-> "idle", i |-> 0, delta_time |-> 0, steps |-> 0]
    /\ bsnap = [before |-> b, changed |-> FALSE, by |-> {}]

BodyIdle == BodyCreated(NewBody(FALSE, FALSE, 0))

\* nexus_physics_set_gravity.
nexus_physics_set_gravity(y) ==
    /\ bpc.pc = "idle"
    /\ config' = [config EXCEPT !.gravity = y]
    /\ UNCHANGED <<rbody, bpc, bsnap>>
    /\ UNCHANGED bodyRest

\* One physics step begins: ecs_progress on the body's world, its callbacks
\* being handed delta_time.
BodyProgressBegin(delta_time) ==
    /\ bpc.pc = "idle"
    /\ bpc.steps < MaxBodySteps
    /\ bpc' = [pc |-> "progress", i |-> 1, delta_time |-> delta_time,
               steps |-> bpc.steps + 1]
    /\ bsnap' = [bsnap EXCEPT !.before = rbody]
    /\ UNCHANGED <<config, rbody>>
    /\ UNCHANGED bodyRest

\* The next system of the pipeline runs over the body.
BodyRunSystem ==
    /\ bpc.pc = "progress"
    /\ bpc.i <= Len(BodyPipeline)
    /\ LET sys == BodyPipeline[bpc.i]
           after == RunCallback(sys, rbody, bpc.delta_time)
           moved == <<after.position, after.euler, after.scale>>
                        # <<rbody.position, rbody.euler, rbody.scale>>
           \* the local matrix is rebuilt from the components
           rebuilt == /\ sys.callback = "nexus_transform_system"
                      /\ rbody.transform.dirty
       IN  /\ rbody' = after
           /\ bsnap' = [bsnap EXCEPT
                  !.changed = IF moved THEN TRUE ELSE IF rebuilt THEN FALSE ELSE @,
                  !.by = IF moved THEN @ \cup {sys.callback}
                         ELSE IF rebuilt THEN {} ELSE @]
    /\ bpc' = [bpc EXCEPT !.i = @ + 1]
    /\ UNCHANGED config
    /\ UNCHANGED bodyRest

\* ecs_progress returns: the step is over.
BodyProgressEnd ==
    /\ bpc.pc = "progress"
    /\ bpc.i > Len(BodyPipeline)
    /\ bpc' = [bpc EXCEPT !.pc = "idle", !.i = 0]
    /\ UNCHANGED <<config, rbody, bsnap>>
    /\ UNCHANGED bodyRest

BodyNext ==
    \/ \E y \in -MaxGravity .. 1 : nexus_physics_set_gravity(y)
    \/ \E delta_time \in 1 .. MaxStepDt : BodyProgressBegin(delta_time)
    \/ BodyRunSystem
    \/ BodyProgressEnd

(***************************************************************************)
(* The matrix, ray and collision helpers, called on their own.  Vectors    *)
(* and matrices are those of the XY plane with integer entries: a matrix   *)
(* is the affine map (x, y) -> (xx*x + xy*y + tx, yx*x + yy*y + ty), a     *)
(* rotation is a number of quarter turns about Z, and square roots are     *)
(* taken of perfect squares only.                                          *)
(***************************************************************************)
MaxRadius == 3
MaxCentre == 6
MaxRayX == 4
MaxRayDist == 4

\* sqrtf of a perfect square.
sqrtf(x) == CHOOSE r \in 0 .. x : r * r = x

glm_vec3_dot(a, b) == a[1] * b[1] + a[2] * b[2]

\* glm_mul_rot(m1, m2, dest) and glm_mat4_mul(m1, m2, dest) on matrices of the
\* plane: dest = m1 * m2.
glm_mul_rot(m1, m2) ==
    [ xx |-> m1.xx * m2.xx + m1.xy * m2.yx, xy |-> m1.xx * m2.xy + m1.xy * m2.yy,
      yx |-> m1.yx * m2.xx + m1.yy * m2.yx, yy |-> m1.yx * m2.xy + m1.yy * m2.yy,
      tx |-> m1.xx * m2.tx + m1.xy * m2.ty + m1.tx,
      ty |-> m1.yx * m2.tx + m1.yy * m2.ty + m1.ty ]

\* glm_quat_mat4(q, dest): the rotation matrix of q quarter turns about Z.
glm_quat_mat4(q) ==
    LET c == CASE q % 4 = 0 -> 1 [] q % 4 = 2 -> -1 [] OTHER -> 0
        s == CASE q % 4 = 1 -> 1 [] q % 4 = 3 -> -1 [] OTHER -> 0
    IN  [xx |-> c, xy |-> -s, yx |-> s, yy |-> c, tx |-> 0, ty |-> 0]

\* The local matrix of nexus_transform_system: glm_mat4_identity,
\* glm_translate (m = m * T), glm_quat_mat4 and glm_mat4_mul (m = m * R),
\* glm_scale (m = m * S).
TransformLocal(position, quaternion, scale) ==
    LET I == [xx |-> 1, xy |-> 0, yx |-> 0, yy |-> 1, tx |-> 0, ty |-> 0]
        T == [I EXCEPT !.tx = position[1], !.ty = position[2]]
        S == [I EXCEPT !.xx = scale[1], !.yy = scale[2]]
    IN  glm_mul_rot(glm_mul_rot(glm_mul_rot(I, T), glm_quat_mat4(quaternion)), S)

\* nexus_mat4_transform, which the first implementation of
\* nexus_transform_system calls with the Euler angles: glm_mat4_identity,
\* glm_scale (m = m * S), the quaternion of the angles turned into a matrix and
\* glm_mul_rot (m = m * R), then the translation column written over.
nexus_mat4_transform(position, rotation, scale) ==
    LET I == [xx |-> 1, xy |-> 0, yx |-> 0, yy |-> 1, tx |-> 0, ty |-> 0]
        S == [I EXCEPT !.xx = scale[1], !.yy = scale[2]]
        m == glm_mul_rot(glm_mul_rot(I, S), glm_quat_mat4(rotation))
    IN  [m EXCEPT !.tx = position[1], !.ty = position[2]]

\* nexus_ray_sphere_intersect: the nearest intersection in the positive
\* direction of the ray, if there is one.
nexus_ray_sphere_intersect(ray, center, radius) ==
    LET oc == <<ray.origin[1] - center[1], ray.origin[2] - center[2]>>
        a == glm_vec3_dot(ray.direction, ray.direction)
        b == 2 * glm_vec3_dot(oc, ray.direction)
        c == glm_vec3_dot(oc, oc) - radius * radius
        discriminant == b * b - 4 * a * c
        t1 == (-b - sqrtf(discriminant)) \div (2 * a)
        t2 == (-b + sqrtf(discriminant)) \div (2 * a)
    IN  IF discriminant < 0 THEN [hit |-> FALSE, t |-> 0]
        ELSE IF t1 >= 0 THEN [hit |-> TRUE, t |-> t1]
        ELSE IF t2 >= 0 THEN [hit |-> TRUE, t |-> t2]
        ELSE [hit |-> FALSE, t |-> 0]

\* nexus_physics_raycast over the candidate bodies positions[1 .. n], the
\* entity of row i being i: nexus_ray_set normalises the direction, every body
\* is a sphere of radius 1, and a hit replaces the closest one when
\* t < closest_distance, which starts at max_distance.
nexus_physics_raycast(origin, direction, max_distance, positions) ==
    LET norm == sqrtf(glm_vec3_dot(direction, direction))
        ray == [origin |-> origin,
                direction |-> <<direction[1] \div norm, direction[2] \div norm>>]
        RECURSIVE Loop(_, _)
        Loop(i, closest) ==
            IF i > Len(positions) THEN closest
            ELSE LET r == nexus_ray_sphere_intersect(ray, positions[i], 1)
                 IN  IF r.hit /\ r.t < closest.hit_distance
                     THEN Loop(i + 1, [hit |-> TRUE, hit_entity |-> i,
                                       hit_distance |-> r.t])
                     ELSE Loop(i + 1, closest)
    IN  Loop(1, [hit |-> FALSE, hit_entity |-> 0, hit_distance |-> max_distance])

NoCollisionStrict(distance_sq, radius_sum) == distance_sq > radius_sum * radius_sum

\* The test of detect_sphere_sphere_collision that returns false.
NoCollision(distance_sq, radius_sum) == distance_sq >= radius_sum * radius_sum

\* detect_sphere_sphere_collision: the value returned and collision_info, of
\* which nothing is written when false is returned.  The normal is the
\* direction over the distance (kept as the two), or (0, 1) for spheres at the
\* same place.
detect_sphere_sphere_collision(pos_a, radius_a, pos_b, radius_b, collision_info) ==
    LET direction == <<pos_b[1] - pos_a[1], pos_b[2] - pos_a[2]>>
        distance_sq == glm_vec3_dot(direction, direction)
        radius_sum == radius_a + radius_b
        distance == sqrtf(distance_sq)
    IN  IF NoCollision(distance_sq, radius_sum)
        THEN [returned |-> FALSE, info |-> collision_info]
        ELSE [returned |-> TRUE,
              info |-> [collided |-> TRUE,
                        contact_normal |->
                            IF distance > 0
                            THEN [vec |-> direction, over |-> distance]
                            ELSE [vec |-> <<0, 1>>, over |-> 1],
                        penetration_depth |-> radius_sum - distance]]

\* No helper has been called yet.
CalcIdle == calc = [fn |-> "none"]

\* nexus_transform_system on a dirty entity, by either implementation.
TransformCall(position, rotation, scale) ==
    /\ calc.fn = "none"
    /\ calc' = [fn |-> "transform", position |-> position, rotation |-> rotation,
                scale |-> scale,
                local |-> TransformLocal(position, rotation, scale),
                first |-> nexus_mat4_transform(position, rotation, scale)]
    /\ UNCHANGED calcRest

RaycastCall(origin, direction, max_distance, positions) ==
    /\ calc.fn = "none"
    /\ calc' = [fn |-> "raycast", origin |-> origin, direction |-> direction,
                max_distance |-> max_distance, positions |-> positions,
                out |-> nexus_physics_raycast(origin, direction, max_distance,
                                              positions)]
    /\ UNCHANGED calcRest

CollisionCall(pos_a, radius_a, pos_b, radius_b, collision_info) ==
    /\ calc.fn = "none"
    /\ calc' = [fn |-> "collision", pos_a |-> pos_a, radius_a |-> radius_a,
                pos_b |-> pos_b, radius_b |-> radius_b,
                out |-> detect_sphere_sphere_collision(pos_a, radius_a, pos_b,
                                                      radius_b, collision_info)]
    /\ UNCHANGED calcRest

\* The inputs: positions and scales of the plane; rays along the X axis and
\* bodies on and beside it; centres on an axis or a 3-4-5 triangle apart, and
\* a collision_info that holds whatever the caller left in it.
MathNext ==
    \/ \E position \in (-MaxPos .. MaxPos) \X (-MaxPos .. MaxPos),
          rotation \in 0 .. 3,
          scale \in (1 .. MaxScale) \X (1 .. MaxScale) :
            TransformCall(position, rotation, scale)
    \/ \E direction \in {<<1, 0>>, <<-1, 0>>, <<2, 0>>},
          max_distance \in 1 .. MaxRayDist,
          n \in 0 .. 2 :
            \E positions \in [1 .. n -> (0 .. MaxRayX) \X (0 .. 2)] :
                RaycastCall(<<0, 0>>, direction, max_distance, positions)
    \/ \E pos_a \in {<<0, 0>>, <<1, 0>>},
          offset \in {<<d, 0>> : d \in -MaxCentre .. MaxCentre}
                     \cup {<<0, d>> : d \in -MaxCentre .. MaxCentre}
                     \cup {<<3, 4>>, <<-4, 3>>},
          radius_a \in 1 .. MaxRadius,
          radius_b \in 1 .. MaxRadius,
          collided \in BOOLEAN :
            CollisionCall(pos_a, radius_a,
                          <<pos_a[1] + offset[1], pos_a[2] + offset[2]>>, radius_b,
                          [collided |-> collided,
                           contact_normal |-> [vec |-> <<0, 0>>, over |-> 1],
                           penetration_depth |-> 0])

(***************************************************************************)
(* Registration of systems.  The engine has no registration call of its    *)
(* own: nexus_physics_create, nexus_ecs_register_systems and the           *)
(* application each call ecs_system_init and, for a phase, ecs_add_id.     *)
(* By the contract of flecs, ecs_entity(world, {.name = n}) returns the    *)
(* entity that already bears the name n when there is one, ecs_new always  *)
(* returns a new entity, ecs_system_init on an entity that is a system     *)
(* already replaces its callback, and ecs_add_id adds any entity as a tag, *)
(* whether it bears EcsPhase or not.                                       *)
(***************************************************************************)
MaxRegistered == 11

RegIdle == registry = [systems |-> <<>>, phases |-> {}, call |-> [fn |-> "none"]]

\* ecs_system_init for each description of descs in turn, then ecs_add_id of
\* its phase; the value of ecs_system_init is only tested to print a message.
RECURSIVE SystemInit(_, _)
SystemInit(systems, descs) ==
    IF descs = <<>> THEN systems
    ELSE LET d == Head(descs)
             tags == IF d.phase = "none" THEN {} ELSE {d.phase}
             old == {i \in DOMAIN systems : d.name # "" /\ systems[i].name = d.name}
             made == [name |-> d.name, callback |-> d.callback, phases |-> tags]
         IN  SystemInit(
                 IF old = {} THEN Append(systems, made)
                 ELSE [i \in DOMAIN systems |->
                         IF i \in old
                         THEN [made EXCEPT !.phases = systems[i].phases \cup tags]
                         ELSE systems[i]],
                 Tail(descs))

\* One registration: fn with the descriptions descs, after the phases made
\* have been given EcsPhase.  The call keeps what was asked, the systems and
\* phases it found and what it returned.
Registered(fn, made, descs, returned) ==
    /\ Len(registry.systems) + Len(descs) <= MaxRegistered
    /\ registry' =
          [ systems |-> SystemInit(registry.systems, descs),
            phases |-> registry.phases \cup made,
            call |-> [ fn |-> fn, descs |-> descs, before |-> registry.systems,
                       known |-> registry.phases \cup made, returned |-> returned ] ]

\* nexus_physics_create: two systems on entities of ecs_new, no phase; returns
\* the physics structure.
RegPhysicsCreate ==
    /\ Registered("nexus_physics_create", {}, PhysicsCreateSystems, "physics")
    /\ UNCHANGED regRest

\* nexus_ecs_register_systems: the nine phases, then the eight named systems;
\* returns true whenever the world is not NULL.
RegRegisterSystems ==
    /\ Registered("nexus_ecs_register_systems", {Phases[i] : i \in DOMAIN Phases},
                  RegisterSystems, "true")
    /\ UNCHANGED regRest

\* The application registers a system as create_scene of simple_cube.c does,
\* under a name, with or without a tag: a registered phase, or "Plain", an
\* entity that was never given EcsPhase.
RegApplication(name, callback, phase) ==
    /\ phase \in registry.phases \cup {"none", "Plain"}
    /\ Registered("ecs_system_init", {},
                  << [name |-> name, callback |-> callback, phase |-> phase] >>, "system")
    /\ UNCHANGED regRest

RegNext ==
    \/ RegPhysicsCreate
    \/ RegRegisterSystems
    \/ \E name \in {"CubeRotationSystem", "NexusTransformSystem"},
          callback \in {"cube_update_system", "nexus_transform_system"},
          phase \in {"none", "Plain", "Logic"} : RegApplication(name, callback, phase)

(***************************************************************************)
(* The input system.  Each array of booleans of NexusInput is the set of   *)
(* the indexes that hold true; one key, one mouse button and the gamepad   *)
(* of index 0 are followed.  The *_prev arrays are written and never read  *)
(* and are left out; the device is enabled as nexus_input_create leaves    *)
(* it.                                                                     *)
(***************************************************************************)
\* The number of axes of a gamepad in SDL, which the code also uses as the
\* number of bytes of a button array to clear.
SDL_GAMEPAD_AXIS_COUNT == 6

\* The gamepad buttons followed: the first one, and the first one whose index
\* is not below SDL_GAMEPAD_AXIS_COUNT (SDL_GAMEPAD_BUTTON_START).
PadButtons == {0, SDL_GAMEPAD_AXIS_COUNT}

\* memset(array, 0, sizeof(bool) * count) on an array of booleans.
Memset(array, count) == {i \in array : i >= count}

nexus_input_create ==
    [ keys_down |-> {}, keys_pressed |-> {}, keys_released |-> {},
      mouse_buttons |-> {}, mouse_buttons_pressed |-> {}, mouse_buttons_released |-> {},
      mouse_delta_x |-> 0, mouse_wheel_y |-> 0,
      gamepad_connected |-> FALSE, gamepad_axes |-> {},
      gamepad_buttons |-> {}, gamepad_buttons_pressed |-> {},
      gamepad_buttons_released |-> {} ]

nexus_input_reset_states(in) ==
    [in EXCEPT
       !.keys_down = {}, !.keys_pressed = {}, !.keys_released = {},
       !.mouse_buttons = {}, !.mouse_buttons_pressed = {}, !.mouse_buttons_released = {},
       !.mouse_wheel_y = 0, !.mouse_delta_x = 0,
       !.gamepad_axes = {},
       !.gamepad_buttons = Memset(in.gamepad_buttons, SDL_GAMEPAD_AXIS_COUNT),
       !.gamepad_buttons_pressed =
            Memset(in.gamepad_buttons_pressed, SDL_GAMEPAD_AXIS_COUNT),
       !.gamepad_buttons_released =
            Memset(in.gamepad_buttons_released, SDL_GAMEPAD_AXIS_COUNT)]

\* nexus_input_process_event, by the type of the event.  An axis is in
\* gamepad_axes when its value is beyond the dead zone.
nexus_input_process_event(in, event) ==
    CASE event.type = "KEY_DOWN" ->
           [in EXCEPT !.keys_pressed = in.keys_pressed \cup {event.index},
                      !.keys_down = in.keys_down \cup {event.index}]
      [] event.type = "KEY_UP" ->
           [in EXCEPT !.keys_released = in.keys_released \cup {event.index},
                      !.keys_down = in.keys_down \ {event.index}]
      [] event.type = "MOUSE_MOTION" -> [in EXCEPT !.mouse_delta_x = 1]
      [] event.type = "MOUSE_BUTTON_DOWN" ->
           [in EXCEPT !.mouse_buttons_pressed = in.mouse_buttons_pressed \cup {event.index},
                      !.mouse_buttons = in.mouse_buttons \cup {event.index}]
      [] event.type = "MOUSE_BUTTON_UP" ->
           [in EXCEPT !.mouse_buttons_released = in.mouse_buttons_released \cup {event.index},
                      !.mouse_buttons = in.mouse_buttons \ {event.index}]
      [] event.type = "MOUSE_WHEEL" -> [in EXCEPT !.mouse_wheel_y = 1]
      [] event.type = "GAMEPAD_ADDED" -> [in EXCEPT !.gamepad_connected = TRUE]
      [] event.type = "GAMEPAD_REMOVED" ->
           IF ~in.gamepad_connected THEN in
           ELSE [in EXCEPT
                   !.gamepad_connected = FALSE,
                   !.gamepad_axes = {},
                   !.gamepad_buttons = Memset(in.gamepad_buttons, SDL_GAMEPAD_AXIS_COUNT),
                   !.gamepad_buttons_pressed =
                        Memset(in.gamepad_buttons_pressed, SDL_GAMEPAD_AXIS_COUNT),
                   !.gamepad_buttons_released =
                        Memset(in.gamepad_buttons_released, SDL_GAMEPAD_AXIS_COUNT)]
      [] event.type = "GAMEPAD_AXIS_MOTION" ->
           [in EXCEPT !.gamepad_axes = in.gamepad_axes \cup {event.index}]
      [] event.type = "GAMEPAD_BUTTON_DOWN" ->
           [in EXCEPT !.gamepad_buttons_pressed = in.gamepad_buttons_pressed \cup {event.index},
                      !.gamepad_buttons = in.gamepad_buttons \cup {event.index}]
      [] event.type = "GAMEPAD_BUTTON_UP" ->
           [in EXCEPT !.gamepad_buttons_released = in.gamepad_buttons_released \cup {event.index},
                      !.gamepad_buttons = in.gamepad_buttons \ {event.index}]
      [] event.type = "WINDOW_FOCUS_LOST" -> nexus_input_reset_states(in)

\* nexus_input_update: the flags of one frame are cleared.
nexus_input_update(in) ==
    [in EXCEPT !.keys_pressed = {}, !.keys_released = {},
               !.mouse_buttons_pressed = {}, !.mouse_buttons_released = {},
               !.mouse_wheel_y = 0, !.mouse_delta_x = 0,
               !.gamepad_buttons_pressed = {}, !.gamepad_buttons_released = {}]

\* What nexus_input_get_key_state, nexus_input_get_mouse_button_state and
\* nexus_input_get_gamepad_button_state tell of each control: the controls in
\* the state "PRESSED", "RELEASED" or "DOWN" (a gamepad only when connected).
Reported(in, state) ==
    LET of(pressed, released, down) ==
            CASE state = "PRESSED" -> pressed
              [] state = "RELEASED" -> released \ pressed
              [] state = "DOWN" -> down \ (pressed \cup released)
    IN  {<<"key", i>> : i \in of(in.keys_pressed, in.keys_released, in.keys_down)}
        \cup {<<"mouse", i>> :
                i \in of(in.mouse_buttons_pressed, in.mouse_buttons_released,
                         in.mouse_buttons)}
        \cup {<<"gamepad", i>> :
                i \in IF in.gamepad_connected
                      THEN of(in.gamepad_buttons_pressed, in.gamepad_buttons_released,
                              in.gamepad_buttons)
                      ELSE {}}

InputIdle == input = [in |-> nexus_input_create, polled |-> {}, seen |-> {}, op |-> "create"]

\* The event loop of nexus_engine_update hands one event to the input system.
\* polled keeps the controls whose down event the frame has processed.
InputPollEvent(event) ==
    /\ input.op # "frame"
    /\ input' =
         [input EXCEPT
            !.in = nexus_input_process_event(input.in, event),
            !.polled =
               CASE event.type = "KEY_DOWN" -> input.polled \cup {<<"key", event.index>>}
                 [] event.type = "MOUSE_BUTTON_DOWN" ->
                      input.polled \cup {<<"mouse", event.index>>}
                 [] event.type = "GAMEPAD_BUTTON_DOWN" /\ input.in.gamepad_connected ->
                      input.polled \cup {<<"gamepad", event.index>>}
                 [] event.type \in {"WINDOW_FOCUS_LOST", "GAMEPAD_REMOVED"} -> {}
                 [] OTHER -> input.polled,
            !.op = event.type]
    /\ UNCHANGED inputRest

\* nexus_engine_update after the event loop: nexus_input_update, then
\* ecs_progress, whose systems see the controls reported as pressed.
InputFrame ==
    /\ input.op # "frame"
    /\ LET updated == nexus_input_update(input.in)
       IN  input' = [in |-> updated, polled |-> input.polled,
                     seen |-> Reported(updated, "PRESSED"), op |-> "frame"]
    /\ UNCHANGED inputRest

\* The next nexus_engine_update begins.
InputNextFrame ==
    /\ input.op = "frame"
    /\ input' = [input EXCEPT !.polled = {}, !.op = "poll"]
    /\ UNCHANGED inputRest

\* The application calls nexus_input_reset_states.
InputResetStates ==
    /\ input.op # "frame"
    /\ input' = [input EXCEPT !.in = nexus_input_reset_states(input.in),
                              !.polled = {}, !.op = "reset"]
    /\ UNCHANGED inputRest

InputNext ==
    \/ \E event \in
            [type : {"KEY_DOWN", "KEY_UP", "MOUSE_BUTTON_DOWN", "MOUSE_BUTTON_UP",
                     "MOUSE_MOTION", "MOUSE_WHEEL", "GAMEPAD_ADDED", "GAMEPAD_REMOVED",
                     "GAMEPAD_AXIS_MOTION", "WINDOW_FOCUS_LOST"}, index : {0}]
            \cup [type : {"GAMEPAD_BUTTON_DOWN", "GAMEPAD_BUTTON_UP"}, index : PadButtons] :
          InputPollEvent(event)
    \/ InputFrame
    \/ InputNextFrame
    \/ InputResetStates

(***************************************************************************)
(* The life of the engine instance: nexus_engine_init, nexus_engine_update *)
(* as far as it counts frames, nexus_engine_request_exit and               *)
(* nexus_engine_shutdown.  A subsystem is named by the field of the engine *)
(* structure that points to it; "engine" is the structure itself and "SDL" *)
(* the library between SDL_Init and SDL_Quit.  Every destroy function      *)
(* returns at once on a NULL pointer, and nexus_engine_init clears the     *)
(* structure before it fills it, so a destroy call has an effect exactly   *)
(* when the field was set.                                                 *)
(***************************************************************************)
NeverInitialized(g) == FALSE

\* if (g_engine != NULL) at the head of nexus_engine_init.
AlreadyInitialized(g) == g.initialized

\* The steps of nexus_engine_init in the order of the code.
InitSteps ==
    <<"engine", "config", "SDL", "window", "world", "renderer", "input", "physics", "audio">>

\* The steps whose failure makes nexus_engine_init return false; a failed
\* window or renderer is a warning.
FailSteps == {"engine", "config", "SDL", "world", "input", "physics", "audio"}

UnwindNothing(fail) == <<"engine">>

\* The calls of the failure path of a step, in the order of the code; the
\* path ends with g_engine = NULL.
Unwind(fail) ==
    CASE fail = "engine"  -> <<>>
      [] fail = "config"  -> <<"engine">>
      [] fail = "SDL"     -> <<"config", "engine">>
      [] fail = "world"   -> <<"window", "SDL", "config", "engine">>
      [] fail = "input"   -> <<"renderer", "world", "window", "SDL", "config", "engine">>
      [] fail = "physics" -> <<"input", "renderer", "world", "window", "SDL", "config",
                               "engine">>
      [] fail = "audio"   -> <<"physics", "input", "renderer", "world", "window", "SDL",
                               "config", "engine">>
      [] OTHER            -> <<>>

ShutdownLeavesWindow ==
    <<"audio", "physics", "input", "renderer", "world", "config", "SDL", "engine">>

\* The calls of nexus_engine_shutdown in the order of the code.
ShutdownCalls ==
    <<"audio", "physics", "input", "renderer", "world", "window", "config", "SDL", "engine">>

NoEngine == [initialized |-> FALSE, has |-> {}, running |-> FALSE, frame_count |-> 0]

\* The accessors nexus_engine_get_world .. nexus_engine_get_config.
nexus_engine_get(g, subsystem) ==
    IF ~g.initialized THEN "NULL"
    ELSE IF subsystem \in g.has THEN subsystem ELSE "NULL"

LifeIdle ==
    life = [ g |-> NoEngine, live |-> {}, made |-> <<>>, freed |-> <<>>,
             op |-> "none", prev |-> "none", fail |-> "none", ret |-> "void" ]

\* nexus_engine_init.  fail is the step that fails ("none" when none does);
\* window_ok and renderer_ok are the outcomes of nexus_window_create and
\* nexus_renderer_create, which is called only with a window.
EngineInit(fail, window_ok, renderer_ok) ==
    /\ IF AlreadyInitialized(life.g)
       THEN life' = [life EXCEPT !.made = <<>>, !.freed = <<>>, !.op = "init",
                                 !.prev = life.op, !.fail = "none", !.ret = "false"]
       ELSE LET At(step) == CHOOSE i \in 1..Len(InitSteps) : InitSteps[i] = step
                Created(step) ==
                    /\ step # fail
                    /\ fail \in FailSteps => At(step) < At(fail)
                    /\ step = "window" => window_ok
                    /\ step = "renderer" => window_ok /\ renderer_ok
                made == SelectSeq(InitSteps, Created)
                set == {made[i] : i \in 1..Len(made)}
                Effective(call) == call \in set \/ call \in {"SDL", "engine"}
                freed == IF fail \in FailSteps THEN SelectSeq(Unwind(fail), Effective)
                         ELSE <<>>
                gone == {freed[i] : i \in 1..Len(freed)}
            IN  life' = [ g |-> IF fail \in FailSteps
                                THEN IF "engine" \in gone \/ "engine" \notin set
                                     THEN NoEngine
                                     ELSE [initialized |-> TRUE,
                                           has |-> (set \ gone) \ {"engine", "SDL"},
                                           running |-> FALSE, frame_count |-> 0]
                                ELSE [initialized |-> TRUE,
                                      has |-> set \ {"engine", "SDL"},
                                      running |-> TRUE, frame_count |-> 0],
                          live |-> (life.live \cup set) \ gone,
                          made |-> made, freed |-> freed,
                          op |-> "init", prev |-> life.op, fail |-> fail,
                          ret |-> IF fail \in FailSteps THEN "false" ELSE "true" ]
    /\ UNCHANGED lifeRest

\* nexus_engine_shutdown.
EngineShutdown ==
    /\ IF ~life.g.initialized
       THEN life' = [life EXCEPT !.made = <<>>, !.freed = <<>>, !.op = "shutdown",
                                 !.prev = life.op, !.fail = "none", !.ret = "void"]
       ELSE LET Effective(call) == call \in life.g.has \/ call \in {"SDL", "engine"}
                freed == SelectSeq(ShutdownCalls, Effective)
                gone == {freed[i] : i \in 1..Len(freed)}
            IN  life' = [ g |-> NoEngine, live |-> life.live \ gone,
                          made |-> <<>>, freed |-> freed,
                          op |-> "shutdown", prev |-> life.op, fail |-> "none",
                          ret |-> "void" ]
    /\ UNCHANGED lifeRest

\* nexus_engine_update, as far as the instance is concerned: a frame is
\* counted while the engine runs.
EngineFrame ==
    /\ life.g.frame_count < MaxLifeFrames
    /\ life' = [life EXCEPT
                  !.g = IF nexus_engine_is_running(life.g)
                        THEN [life.g EXCEPT !.frame_count = life.g.frame_count + 1]
                        ELSE life.g,
                  !.made = <<>>, !.freed = <<>>, !.op = "update", !.prev = life.op,
                  !.fail = "none", !.ret = "void"]
    /\ UNCHANGED lifeRest

\* nexus_engine_request_exit.
EngineRequestExit ==
    /\ life' = [life EXCEPT
                  !.g = IF life.g.initialized THEN [life.g EXCEPT !.running = FALSE]
                        ELSE life.g,
                  !.made = <<>>, !.freed = <<>>, !.op = "request_exit",
                  !.prev = life.op, !.fail = "none", !.ret = "void"]
    /\ UNCHANGED lifeRest

LifeNext ==
    \/ \E fail \in FailSteps \cup {"none"}, window_ok, renderer_ok \in BOOLEAN :
          EngineInit(fail, window_ok, renderer_ok)
    \/ EngineShutdown
    \/ EngineFrame
    \/ EngineRequestExit

(***************************************************************************)
(* Specifications.                                                         *)
(***************************************************************************)
AuxIdle == RegIdle /\ InputIdle /\ LifeIdle

AllIdle ==
    /\ PhysIdle /\ RunsIdle /\ FrameIdle /\ XformIdle /\ EcsCreated(TRUE)
    /\ BodyIdle /\ CalcIdle /\ AuxIdle

\* A scene of entities with parents, whichever hierarchy system is built.
XformInit ==
    /\ PhysIdle /\ RunsIdle /\ FrameIdle /\ EcsCreated(TRUE) /\ BodyIdle /\ CalcIdle /\ AuxIdle
    /\ scene \in Scenes
    /\ transforms = [e \in Entities |-> NewTransform]
    /\ xpc = [pc |-> "idle", i |-> 0, frames |-> 0]
    /\ xlog = NoXlog

SpecPhysics == AllIdle /\ [][PhysNext]_vars

SpecTwoRuns == AllIdle /\ [][TwoRunsNext]_vars

\* An engine with or without a window, with or without a renderer.
FrameInit ==
    /\ PhysIdle /\ RunsIdle /\ XformIdle /\ EcsCreated(TRUE) /\ BodyIdle /\ CalcIdle /\ AuxIdle
    /\ \E has_window, has_renderer \in BOOLEAN : FrameCreated(has_window, has_renderer)

SpecFrame == FrameInit /\ [][FrameNext]_vars

SpecXform == XformInit /\ [][XformNext]_vars

\* A world with the components of either registration.
EcsInit ==
    /\ PhysIdle /\ RunsIdle /\ FrameIdle /\ XformIdle /\ BodyIdle /\ CalcIdle /\ AuxIdle
    /\ \E observers \in BOOLEAN : EcsCreated(observers)

SpecEcs == EcsInit /\ [][EcsNext]_vars

\* A body asleep or awake, kinematic or not, at rest or moving.
BodyInit ==
    /\ PhysIdle /\ RunsIdle /\ FrameIdle /\ XformIdle /\ EcsCreated(TRUE) /\ CalcIdle /\ AuxIdle
    /\ \E s \in BOOLEAN, k \in BOOLEAN, v \in -MaxVelocity .. MaxVelocity :
           BodyCreated(NewBody(s, k, v))

SpecBody == BodyInit /\ [][BodyNext]_vars

SpecMath == AllIdle /\ [][MathNext]_vars

SpecRender == AllIdle /\ [][RenderNext]_vars

SpecRegister == AllIdle /\ [][RegNext]_vars

SpecInput == AllIdle /\ [][InputNext]_vars

SpecLife == AllIdle /\ [][LifeNext]_vars

(***************************************************************************)
(* Claims about the physics loop.                                          *)
(***************************************************************************)

\* C5: one call of nexus_physics_update runs at most max_substeps full steps and
\* at most one drain step; a call with frame_dt = 100 * fixed_timestep on an
\* empty accumulator runs exactly max_substeps full steps and exactly one drain
\* step and leaves accumulated_time = 0.
C5_SubstepCap ==
    /\ obs.full <= physics.max_substeps
    /\ obs.drain <= 1
    /\ ( /\ ppc = "returned"
         /\ obs.ran
         /\ obs.accBefore = 0
         /\ obs.callDt = 100 * physics.fixed_timestep )
       => ( /\ obs.full = physics.max_substeps
            /\ obs.drain = 1
            /\ physics.accumulated_time = 0 )

C5_Witness ==
    /\ ppc = "returned"
    /\ obs.ran
    /\ obs.accBefore = 0
    /\ obs.callDt = 100 * physics.fixed_timestep
    /\ obs.full = physics.max_substeps
    /\ obs.drain = 1

\* C6: when a call on an unpaused system returns, 0 <= accumulated_time <
\* fixed_timestep; a call that ran fewer than max_substeps steps keeps the whole
\* unconsumed remainder; and as long as no call reached the cap and the timestep
\* was not changed, the full steps run so far number floor(sum of dt /
\* fixed_timestep).
C6_Accumulator ==
    /\ (ppc = "returned" /\ obs.ran) =>
          /\ 0 <= physics.accumulated_time
          /\ physics.accumulated_time < physics.fixed_timestep
          /\ physics.iteration_count < physics.max_substeps =>
                physics.accumulated_time =
                    obs.accBefore + obs.callDt - obs.full * physics.fixed_timestep
    /\ (ppc \in {"idle", "returned"} /\ ~hist.capReached /\ ~hist.timestepChanged) =>
          hist.totalSteps = hist.totalDt \div physics.fixed_timestep

C6_Witness ==
    /\ ppc = "returned"
    /\ obs.ran
    /\ obs.accBefore > 0
    /\ obs.full >= 1
    /\ physics.accumulated_time > 0
    /\ physics.iteration_count < physics.max_substeps
    /\ ~hist.capReached
    /\ ~hist.timestepChanged
    /\ hist.calls >= 2

\* C7: the callbacks of every full substep see it->delta_time equal to the
\* fixed timestep asked for, and those of the drain step see the remaining
\* accumulated time.
C7_StepDeltaTime ==
    obs.kind \in {"full", "drain"} => obs.observed = obs.requested

\* C8: two runs fed the same frame_dt sequence agree on the number of steps, on
\* the delta time of each step and on the position of the body.
C8_Deterministic ==
    /\ runA.steps = runB.steps
    /\ runA.lastDt = runB.lastDt
    /\ runA.y = runB.y

(***************************************************************************)
(* Claims about the scheduler.                                             *)
(***************************************************************************)
PhaseOf(id) == (CHOOSE s \in WorldSystems : s.id = id).phase

IdOf(callback) == (CHOOSE s \in WorldSystems : s.callback = callback).id

Position(order, callback) ==
    IF \E i \in 1 .. Len(order) : order[i] = IdOf(callback)
    THEN CHOOSE i \in 1 .. Len(order) : order[i] = IdOf(callback)
    ELSE 0

\* callback a ran, and ran before callback b, in the progress logged in order.
RanBefore(order, a, b) ==
    /\ Position(order, a) > 0
    /\ Position(order, a) < Position(order, b)

\* C2: within every progress of the pipeline the systems run phase by phase in
\* the order Init, Input, Physics, Logic, Animation, PreRender, Render,
\* PostRender, Cleanup: a system of a later phase never runs before a system of
\* an earlier phase.
C2_PhaseOrder ==
    \A i, j \in 1 .. Len(tick.order) :
        ( /\ i < j
          /\ PhaseOf(tick.order[i]) # "none"
          /\ PhaseOf(tick.order[j]) # "none" )
        => PhaseRank(PhaseOf(tick.order[i])) <= PhaseRank(PhaseOf(tick.order[j]))

\* C3: when the work of a frame tick is over, the scheduler has been run once,
\* with the frame's elapsed time, and every registered system has been executed
\* exactly once.
C3_OncePerTick ==
    epc = "tail" =>
        /\ tick.progress = 1
        /\ tick.args = <<engine.delta_time * engine.time_scale>>
        /\ \A c \in Callbacks : tick.runs[c] = 1

\* C4: in every progress the physics system has run before the transform
\* system runs, the transform system before the hierarchy system, and the
\* hierarchy system before the renderer system.
C4_SystemOrder ==
    /\ Position(tick.order, "nexus_transform_system") > 0 =>
          RanBefore(tick.order, "nexus_physics_system", "nexus_transform_system")
    /\ Position(tick.order, "nexus_hierarchy_system") > 0 =>
          RanBefore(tick.order, "nexus_transform_system", "nexus_hierarchy_system")
    /\ Position(tick.order, "nexus_renderer_system") > 0 =>
          RanBefore(tick.order, "nexus_hierarchy_system", "nexus_renderer_system")

(***************************************************************************)
(* Claims about the transform hierarchy.                                   *)
(***************************************************************************)
RECURSIVE ExpectedWorld(_)
ExpectedWorld(e) ==
    LET local == ModelMatrix(scene.positions[e], scene.scales[e])
    IN  IF scene.parent[e] = 0
        THEN local
        ELSE glm_mat4_mul(ExpectedWorld(scene.parent[e]), local)

\* C9: within a frame the hierarchy system never computes the world matrix of
\* an entity from the world matrix of a parent whose own world update of that
\* frame is still to come.
C9_ParentFirst == xlog.early = {}

\* C10: at the end of every frame the world matrix of an entity with a parent
\* is parent.world * local, that of an entity without one is local, and every
\* world matrix is the product of the local matrices up its chain of parents,
\* built from the positions set before that frame.
C10_WorldMatrix ==
    xpc.pc = "frameEnd" =>
        \A e \in Entities :
            /\ transforms[e].world =
                  IF scene.parent[e] # 0
                  THEN glm_mat4_mul(transforms[scene.parent[e]].world, transforms[e].local)
                  ELSE transforms[e].local
            /\ transforms[e].world = ExpectedWorld(e)

(***************************************************************************)
(* Claims about the ECS world.                                             *)
(***************************************************************************)

C11_DirtyAfterChange ==
    bsnap.changed => rbody.transform.dirty

\* C14: at the end of a physics step with step time dt a body that is neither
\* kinematic nor sleeping has velocity = old velocity + gravity * dt and
\* position = old position + new velocity * dt, with the configured gravity; a
\* kinematic or sleeping body has received no gravity.
C14_SemiImplicitEuler ==
    (bpc.pc = "idle" /\ bpc.steps > 0) =>
        LET old == bsnap.before
            dt == bpc.delta_time
            dynamic == ~old.rigid.sleeping /\ ~old.rigid.kinematic
            velocity == IF dynamic THEN old.velocity + config.gravity * dt
                        ELSE old.velocity
        IN  /\ rbody.velocity = velocity
            /\ dynamic => rbody.position = old.position + velocity * dt
            /\ ~dynamic /\ old.velocity = 0 => rbody.position = old.position

(***************************************************************************)
(* Claims about the camera components.                                     *)
(***************************************************************************)

\* C12: once an add or a set of a Camera component has been carried out (the
\* world is idle again), at most one entity has Camera.primary set: a set of
\* primary = true on one entity has cleared the flag of the entity that held it.
C12_OnePrimary ==
    wpc.pc = "idle" =>
        Cardinality({e \in EcsEntities : ecs_has(world, e, "Camera")
                                          /\ world.primary[e]}) <= 1

(***************************************************************************)
(* Claims about the systems of a physics step.                             *)
(***************************************************************************)

\* C13: when the ecs_progress of a fixed physics step has returned, the gravity,
\* the integration, the collision and the constraint system have each run in
\* it, in that order.
C13_StepSystemOrder ==
    (epc \in {"substep", "drain"} /\ sysIdx > Len(Pipeline)) =>
        LET ran == [k \in 1 .. Len(tick.order) |->
                       (CHOOSE s \in WorldSystems : s.id = tick.order[k]).callback]
            at(callback) == {k \in 1 .. Len(ran) : ran[k] = callback}
        IN  \E g \in at("nexus_physics_gravity_system") :
            \E i \in at("nexus_physics_integration_system") :
            \E c \in at("nexus_physics_collision_system") :
            \E x \in at("nexus_physics_constraint_system") :
                g < i /\ i < c /\ c < x

(***************************************************************************)
(* Claims about the matrix, ray and collision helpers.                     *)
(***************************************************************************)

\* C15: for every position, rotation and scale the transform system, in each
\* of its implementations, computes local = Translation * Rotation * Scale: the
\* scale is applied first, then the rotation, then the translation.
C15_TranslationRotationScale ==
    calc.fn = "transform" =>
        LET R == glm_quat_mat4(calc.rotation)
            TRS == [ xx |-> R.xx * calc.scale[1], xy |-> R.xy * calc.scale[2],
                     yx |-> R.yx * calc.scale[1], yy |-> R.yy * calc.scale[2],
                     tx |-> calc.position[1], ty |-> calc.position[2] ]
        IN  /\ calc.local = TRS
            /\ calc.first = TRS

\* C16: nexus_physics_raycast reports the body whose intersection parameter t
\* is the smallest among the bodies hit with 0 <= t <= max_distance, a hit at
\* exactly max_distance included; without such a body it reports no hit,
\* hit_entity 0 and hit_distance max_distance.
C16_ClosestHit ==
    calc.fn = "raycast" =>
        LET norm == sqrtf(glm_vec3_dot(calc.direction, calc.direction))
            ray == [origin |-> calc.origin,
                    direction |-> <<calc.direction[1] \div norm,
                                    calc.direction[2] \div norm>>]
            at(i) == nexus_ray_sphere_intersect(ray, calc.positions[i], 1)
            hits == {i \in 1 .. Len(calc.positions) :
                        at(i).hit /\ at(i).t >= 0 /\ at(i).t <= calc.max_distance}
        IN  IF hits = {}
            THEN calc.out = [hit |-> FALSE, hit_entity |-> 0,
                             hit_distance |-> calc.max_distance]
            ELSE /\ calc.out.hit
                 /\ calc.out.hit_entity \in hits
                 /\ calc.out.hit_distance = at(calc.out.hit_entity).t
                 /\ \A i \in hits : calc.out.hit_distance <= at(i).t

C18_RenderOncePerVisible ==
    (epc = "idle" /\ engine.renderer /\ tick.progress > 0) =>
        LET meshCalls(i) ==
                {k \in 1 .. Len(tick.calls) :
                    /\ tick.calls[k].fn = "nexus_renderer_render_mesh"
                    /\ tick.calls[k].arg = i}
            shown == {i \in 1 .. Len(RenderRows.renderables) :
                        LET row == RenderRows.renderables[i]
                        IN  row.visible /\ row.mesh /\ row.material}
        IN  /\ \A i \in 1 .. Len(RenderRows.renderables) :
                  Cardinality(meshCalls(i)) = IF i \in shown THEN 1 ELSE 0
            /\ renderer.draw_calls = Cardinality(shown)
            /\ \A i \in shown :
                  renderer.triangle_count =
                      Cardinality(shown) * RenderRows.renderables[i].triangles

\* C19: the renderer only borrows a camera handed to it: once the engine is
\* shut down, no camera the renderer did not create has been destroyed, and the
\* default camera the renderer created has been destroyed exactly once.
C19_WeakCameraReference ==
    ~engine.initialized =>
        \A c \in DOMAIN cameras :
            /\ cameras[c].by = "renderer" => cameras[c].destroyed = 1
            /\ cameras[c].by # "renderer" => cameras[c].destroyed = 0

\* C20: an engine initialised without a window has no renderer either, and each
\* nexus_engine_update it makes while running runs the ECS scheduler, the
\* physics update and the audio update, adds one to frame_count and makes no
\* call on a window or a renderer.
C20_Headless ==
    (engine.initialized /\ ~engine.window) =>
        /\ ~engine.renderer
        /\ \A k \in 1 .. Len(tick.calls) : tick.calls[k].on \notin {"window", "renderer"}
        /\ (epc = "idle" /\ tick.entry >= 0) =>
              /\ engine.frame_count = tick.entry + 1
              /\ \E i, j, k \in 1 .. Len(tick.calls) :
                    /\ i < j /\ j < k
                    /\ tick.calls[i].fn = "ecs_progress"
                    /\ tick.calls[j].fn = "nexus_physics_update"
                    /\ tick.calls[k].fn = "nexus_audio_update"

C20_Witness ==
    /\ engine.initialized /\ ~engine.window /\ engine.running
    /\ epc = "idle"
    /\ engine.frame_count = MaxFrames
    /\ tick.entry = MaxFrames - 1

\* C21: a registration that names a phase that is not registered, or a name
\* that a registered system bears already, fails, and leaves the registered
\* systems as they were.
C21_RegistrationRejected ==
    registry.call.fn # "none" =>
        LET c == registry.call
            unknownPhase == \E i \in DOMAIN c.descs :
                              c.descs[i].phase \notin c.known \cup {"none"}
            duplicateName == \E i \in DOMAIN c.descs, j \in DOMAIN c.before :
                               c.descs[i].name # "" /\ c.descs[i].name = c.before[j].name
        IN  (unknownPhase \/ duplicateName) =>
               /\ c.returned \in {"false", "NULL", "0"}
               /\ registry.systems = c.before

\* C22: a key, mouse button or gamepad button whose down event was processed
\* in the event polling of a frame is reported as pressed to the systems the
\* scheduler runs in that frame, and no other control is.
C22_PressedThisFrame ==
    input.op = "frame" => input.seen = input.polled

\* C27: after nexus_input_reset_states, called directly or for a window that
\* lost the focus, no key, mouse button or gamepad button is reported down,
\* pressed or released, and the axes, the wheel and the mouse delta read 0.
C27_ResetClearsAll ==
    input.op \in {"reset", "WINDOW_FOCUS_LOST"} =>
        /\ \A state \in {"DOWN", "PRESSED", "RELEASED"} : Reported(input.in, state) = {}
        /\ input.in.gamepad_axes = {}
        /\ input.in.mouse_wheel_y = 0
        /\ input.in.mouse_delta_x = 0

\* C23: once the running flag is false, between two frames, it stays false, and
\* a later nexus_engine_update does no scheduler, physics, audio or render work
\* and leaves frame_count and delta_time as they are.
C23_StoppedStaysStopped ==
    [][ (epc = "idle" /\ ~engine.running) =>
          /\ ~engine'.running
          /\ epc' = "idle"
          /\ engine'.frame_count = engine.frame_count
          /\ engine'.delta_time = engine.delta_time
          /\ tick'.calls = tick.calls
          /\ tick'.progress = tick.progress
          /\ tick'.runs = tick.runs
          /\ physics' = physics
          /\ renderer'.draw_calls = renderer.draw_calls
          /\ renderer'.cmd_buffer = renderer.cmd_buffer ]_vars

C23_Witness ==
    /\ engine.initialized /\ ~engine.running
    /\ epc = "idle"
    /\ tick.refused
    /\ engine.frame_count > 0
    /\ tick.progress > 0

\* C24: once an operation on the world has been carried out (the world is idle
\* again), every entity that holds Position, Rotation and Scale, whatever the
\* order they came in, holds a Transform too.
C24_TransformAutoAdded ==
    wpc.pc = "idle" =>
        \A e \in EcsEntities :
            (Alive(world, e) /\ {"Position", "Rotation", "Scale"} \subseteq ArchetypeOf(world, e))
                => ecs_has(world, e, "Transform")

\* C25: nexus_renderer_render_mesh records a draw only while a frame is open,
\* after a nexus_renderer_begin_frame that returned true and before the
\* nexus_renderer_end_frame that follows; otherwise it records nothing and does
\* not touch a command buffer that was cancelled or submitted.
C25_DrawOnlyInOpenFrame ==
    /\ renderer.touched \in {"none", "open"}
    /\ renderer.cmd_buffer # "open" => renderer.draw_calls = 0 \/ renderer.touched = "open"

\* C28: while the physics system is paused, a call of nexus_physics_update
\* changes nothing: no world step is run and accumulated_time and
\* iteration_count keep their values.
C28_PausedUpdateIsNoOp ==
    [][ (physics.paused /\ ppc \in {"idle", "returned"} /\ ppc' \in {"loop", "returned"}) =>
          /\ ppc' = "returned"
          /\ physics' = physics
          /\ obs'.full = 0
          /\ obs'.drain = 0
          /\ hist'.totalSteps = hist.totalSteps ]_vars

C28_Witness ==
    /\ physics.paused
    /\ ppc = "returned"
    /\ ~obs.ran
    /\ obs.callDt >= physics.fixed_timestep
    /\ physics.accumulated_time > 0
    /\ physics.accumulated_time = obs.accBefore

\* C26: when a required step of nexus_engine_init fails (the structure, the
\* configuration, SDL, the ECS world, the input, physics or audio system),
\* init returns false, g_engine is NULL and nexus_engine_is_running false,
\* everything the call created has been destroyed exactly once and nothing
\* else has, and a following nexus_engine_init in which no step fails returns
\* true with a running engine.
C26_FailedInitUnwinds ==
    [][ /\ (life'.op = "init" /\ life'.fail \in FailSteps) =>
             /\ life'.ret = "false"
             /\ life'.g = NoEngine
             /\ ~nexus_engine_is_running(life'.g)
             /\ \A x \in {"engine", "config", "SDL", "window", "world", "renderer",
                          "input", "physics", "audio"} :
                   /\ Cardinality({i \in 1..Len(life'.made) : life'.made[i] = x}) =
                         Cardinality({i \in 1..Len(life'.freed) : life'.freed[i] = x})
                   /\ Cardinality({i \in 1..Len(life'.freed) : life'.freed[i] = x}) <= 1
             /\ life'.live = {}
        /\ (life.op = "init" /\ life.fail \in FailSteps
               /\ life'.op = "init" /\ life'.fail = "none") =>
             /\ life'.ret = "true"
             /\ nexus_engine_is_running(life'.g) ]_vars

C26_Witness ==
    /\ life.op = "init"
    /\ life.fail = "audio"
    /\ life.ret = "false"
    /\ life.made = <<"engine", "config", "SDL", "window", "world", "renderer", "input",
                     "physics">>
    /\ Len(life.freed) = 8
    /\ ~life.g.initialized

\* C29: nexus_engine_shutdown on an initialized engine destroys each existing
\* subsystem exactly once, in the order audio, physics, input, renderer, ECS
\* world, window, configuration, and leaves the engine uninitialized
\* (nexus_engine_is_running false, every accessor NULL); shutdown of an engine
\* that is not initialized changes nothing; an init after a shutdown in which
\* no step fails returns true.
C29_ShutdownDestroysOnce ==
    [][ /\ (life'.op = "shutdown" /\ life.g.initialized) =>
             LET WasLive(x) == x \in life.live
             IN  /\ life'.freed =
                       SelectSeq(<<"audio", "physics", "input", "renderer", "world",
                                   "window", "config", "SDL", "engine">>, WasLive)
                 /\ life'.live = {}
                 /\ ~life'.g.initialized
                 /\ ~nexus_engine_is_running(life'.g)
                 /\ \A x \in {"world", "renderer", "window", "input", "physics",
                              "audio", "config"} :
                       nexus_engine_get(life'.g, x) = "NULL"
        /\ (life'.op = "shutdown" /\ ~life.g.initialized) =>
             /\ life'.g = life.g
             /\ life'.live = life.live
             /\ life'.freed = <<>>
        /\ (life.op = "shutdown" /\ life'.op = "init" /\ life'.fail = "none") =>
             /\ life'.ret = "true"
             /\ nexus_engine_is_running(life'.g) ]_vars

C29_Witness ==
    /\ life.op = "shutdown"
    /\ life.prev = "update"
    /\ life.freed = <<"audio", "physics", "input", "renderer", "world", "window",
                      "config", "SDL", "engine">>
    /\ ~life.g.initialized

\* C30: nexus_engine_init on an engine that is already initialized returns
\* false and leaves the instance as it was: the same subsystems, the same
\* running flag and frame_count, nothing created and nothing destroyed.
C30_SecondInitRefused ==
    [][ (life.g.initialized /\ life'.op = "init") =>
          /\ life'.ret = "false"
          /\ life'.g = life.g
          /\ life'.live = life.live
          /\ life'.made = <<>>
          /\ life'.freed = <<>> ]_vars

C30_Witness ==
    /\ life.op = "init"
    /\ life.prev = "update"
    /\ life.ret = "false"
    /\ life.g.initialized
    /\ life.g.running
    /\ life.g.frame_count > 0

=============================================================================
